---- MODULE Spec2Model ----
(***************************************************************************)
(* A model of create-mcp (src/bin/create-mcp.js): the command that         *)
(* scaffolds a Model Context Protocol server project from a built-in       *)
(* template, a local template directory or a GitHub repository.            *)
(*                                                                         *)
(* Strings are TLA+ strings; the JavaScript string methods and regular     *)
(* expressions the program uses are operators over them.  JSON documents   *)
(* are tagged values (JStr, JNum, JObj ...); a JSON object is a function   *)
(* from its keys to its values.                                            *)
(*                                                                         *)
(* Four specifications:                                                    *)
(*   Spec            one invocation of the command, statement group by     *)
(*                   statement group, over a small file system;            *)
(*   SpecPure        the program's pure functions applied to inputs drawn  *)
(*                   from bounded sets;                                    *)
(*   SpecConcurrent  two invocations of handleGitHubTemplate in one        *)
(*                   working directory, and their temporary directories;   *)
(*   SpecHttp        the session map of the basic-http template's server   *)
(*                   (src/templates/basic-http/src/index.ts) under POST,   *)
(*                   GET and DELETE requests and transports closing.       *)
(***************************************************************************)
EXTENDS Integers, Sequences, FiniteSets, TLC

VARIABLES
    pc,                 \* the statement group the invocation is at
    args,               \* the command line: projectName, template, install, customize
    env,                \* what the invocation finds: the template's tree, the prompts directory
    identity,           \* the answers to the description and author prompts
    choices,            \* the answers to the ESLint and Prettier prompts
    dest,               \* the project directory
    tempDir,            \* the clone's temporary directory
    configInstructions, \* the handler's local variable of that name
    templateResult,     \* what the handler returned
    rendered,           \* what printConfigInstructions printed
    exit,               \* the process's exit: its code and what ended it
    probe               \* SpecPure, SpecConcurrent, SpecHttp: what is applied, its inputs, its output

runVars == <<pc, args, env, identity, choices, dest, tempDir, configInstructions,
             templateResult, rendered, exit>>
vars == <<pc, args, env, identity, choices, dest, tempDir, configInstructions,
          templateResult, rendered, exit, probe>>

(***************************************************************************)
(* Bounds of the input sets.                                               *)
(***************************************************************************)
MaxSegs == 3        \* segments concatenated into a template reference
MaxParts == 3       \* fragments concatenated into a README text

(***************************************************************************)
(* JavaScript strings.                                                     *)
(***************************************************************************)
\* s[i..j], clamped to the string as String.prototype.substring clamps
Slice(s, i, j) ==
    LET a == IF i < 1 THEN 1 ELSE i
        b == IF j > Len(s) THEN Len(s) ELSE j
    IN  IF a > b THEN "" ELSE SubSeq(s, a, b)

\* String.prototype.charAt (1-based): "" outside the string
At(s, i) == Slice(s, i, i)

\* F(v), with v worked out once
Bind(v, F(_)) == CHOOSE r \in {F(x) : x \in {v}} : TRUE

\* String.prototype.startsWith
StartsWith(s, p) == Len(p) <= Len(s) /\ Slice(s, 1, Len(p)) = p

\* String.prototype.endsWith
EndsWith(s, p) == Len(p) <= Len(s) /\ Slice(s, Len(s) - Len(p) + 1, Len(s)) = p

\* String.prototype.includes
Includes(s, p) == \E i \in 1..(Len(s) - Len(p) + 1) : Slice(s, i, i + Len(p) - 1) = p

\* all concatenations of at most n elements of the set of strings S
RECURSIVE Concats(_, _)
Concats(S, n) ==
    IF n = 0 THEN {""}
    ELSE LET shorter == Concats(S, n - 1)
         IN  shorter \cup {a \o b : a \in shorter, b \in S}

(***************************************************************************)
(* JSON values, as JSON.parse returns them.                                *)
(***************************************************************************)
NoFields == [k \in {} |-> ""]
JNull == [type |-> "null", s |-> "", fields |-> NoFields]
JStr(x) == [type |-> "string", s |-> x, fields |-> NoFields]
JNum(x) == [type |-> "number", s |-> x, fields |-> NoFields]
JBool(x) == [type |-> "boolean", s |-> x, fields |-> NoFields]
JObj(f) == [type |-> "object", s |-> "", fields |-> f]
\* the value of a property that is not there
JUndefined == [type |-> "undefined", s |-> "", fields |-> NoFields]

\* JavaScript's ToBoolean, as `if (v)` and `a && b` apply it
Truthy(v) ==
    CASE v.type = "null" -> FALSE
      [] v.type = "undefined" -> FALSE
      [] v.type = "string" -> v.s # ""
      [] v.type = "number" -> v.s \notin {"0", "-0"}
      [] v.type = "boolean" -> v.s = "true"
      [] OTHER -> TRUE

\* v.key : the property of an object, undefined on a string, number or boolean
Prop(v, key) ==
    IF v.type = "object" /\ key \in DOMAIN v.fields THEN v.fields[key] ELSE JUndefined

(***************************************************************************)
(* Template classification (program.action).                               *)
(***************************************************************************)
BuiltInNames == {"basic-stdio", "basic-http"}

\* a mutant of isGitHubRepo: the host is looked for at the start of the reference only
isGitHubRepoAtStart(template) == StartsWith(template, "github.com")

isGitHubRepo(template) == Includes(template, "github.com")

isCustomPath(template) ==
    /\ ~isGitHubRepo(template)
    /\ ~StartsWith(template, "templates/")
    /\ template \notin BuiltInNames

\* the handler the try block dispatches to
Classify(template) ==
    IF isGitHubRepo(template) THEN "RemoteRepository"
    ELSE IF isCustomPath(template) THEN "LocalPath"
    ELSE "BuiltIn"

(***************************************************************************)
(* determineTransportType                                                  *)
(***************************************************************************)
\* a mutant of determineTransportType: the template name is looked at first
determineTransportTypeNameFirst(instructions, templateName) ==
    IF Includes(templateName, "http") THEN JStr("http")
    ELSE IF Truthy(instructions) /\ Truthy(Prop(instructions, "transportType"))
         THEN Prop(instructions, "transportType")
         ELSE JStr("stdio")

determineTransportType(instructions, templateName) ==
    IF Truthy(instructions) /\ Truthy(Prop(instructions, "transportType"))
    THEN Prop(instructions, "transportType")
    ELSE IF Includes(templateName, "http") THEN JStr("http") ELSE JStr("stdio")

(***************************************************************************)
(* updateProjectMetadata: the README rewrite.                              *)
(***************************************************************************)
Min(S) == CHOOSE x \in S : \A y \in S : x <= y


\* the first index from `from` on whose character is in the set C, or 0
FirstOf(s, from, C) ==
    LET hits == {k \in from..Len(s) : At(s, k) \in C}
    IN  IF hits = {} THEN 0 ELSE Min(hits)

LowerCase == "abcdefghijklmnopqrstuvwxyz"
UpperCase == "ABCDEFGHIJKLMNOPQRSTUVWXYZ"

\* String.prototype.toUpperCase of one character
toUpperCase(c) ==
    LET at == {i \in 1..Len(LowerCase) : At(LowerCase, i) = c}
    IN  IF at = {} THEN c ELSE At(UpperCase, Min(at))

\* String.prototype.split(sep) for a one-character separator
RECURSIVE Split(_, _)
Split(s, sep) ==
    LET k == FirstOf(s, 1, {sep})
    IN  IF k = 0 THEN <<s>>
        ELSE <<Slice(s, 1, k - 1)>> \o Split(Slice(s, k + 1, Len(s)), sep)

\* Array.prototype.join("")
RECURSIVE Join(_)
Join(words) == IF words = <<>> THEN "" ELSE Head(words) \o Join(Tail(words))

\* word.charAt(0).toUpperCase() + word.slice(1)
Capitalize(word) ==
    IF word = "" THEN "" ELSE toUpperCase(At(word, 1)) \o Slice(word, 2, Len(word))

\* a mutant of capitalizedName: only the first segment is capitalized
capitalizedNameFirstOnly(projectName) ==
    LET words == Split(projectName, "-")
    IN  Capitalize(Head(words)) \o Join(Tail(words))

capitalizedName(projectName) ==
    LET words == Split(projectName, "-")
    IN  Join([i \in 1..Len(words) |-> Capitalize(words[i])])

\* The replacement patterns String.prototype.replace expands in a replacement
\* string: $$, $&, $` and $' ($n stays as written: the patterns have no groups).
RECURSIVE Expand(_, _, _, _)
Expand(repl, matched, before, after) ==
    LET k == FirstOf(repl, 1, {"$"})
    IN  IF k = 0 \/ k = Len(repl) THEN repl
        ELSE LET c == At(repl, k + 1)
                 rest == Slice(repl, k + 2, Len(repl))
             IN  IF c \in {"$", "&", "`", "'"}
                 THEN Slice(repl, 1, k - 1)
                      \o (CASE c = "$" -> "$"
                            [] c = "&" -> matched
                            [] c = "`" -> before
                            [] c = "'" -> after)
                      \o Expand(rest, matched, before, after)
                 ELSE Slice(repl, 1, k) \o Expand(Slice(repl, k + 1, Len(repl)),
                                                    matched, before, after)

\* s with s[i..j] replaced by the expansion of repl
ReplaceAt(s, i, j, repl) ==
    LET before == Slice(s, 1, i - 1)
        after == Slice(s, j + 1, Len(s))
    IN  before \o Expand(repl, Slice(s, i, j), before, after) \o after

\* /# .+?\n/ at index i: the index of the "\n" that ends the match, or 0
HeadingMatchEnd(s, i) ==
    IF Slice(s, i, i + 1) # "# " THEN 0
    ELSE LET j == FirstOf(s, i + 2, {"\n", "\r"})
         IN  IF j >= i + 3 /\ At(s, j) = "\n" THEN j ELSE 0

\* readme.replace(/# .+?\n/, `# ${capitalizedName}\n`)
replaceHeading(readme, projectName) ==
    LET starts == {i \in 1..Len(readme) : HeadingMatchEnd(readme, i) # 0}
    IN  IF starts = {} THEN readme
        ELSE ReplaceAt(readme, Min(starts), HeadingMatchEnd(readme, Min(starts)),
                       "# " \o capitalizedName(projectName) \o "\n")

\* /^[^\n#]+\n/ : the index of the "\n" that ends the match, or 0
DescriptionMatchEnd(s) ==
    LET k == FirstOf(s, 1, {"\n", "#"})
    IN  IF k >= 2 /\ At(s, k) = "\n" THEN k ELSE 0

\* readme.replace(/^[^\n#]+\n/, `${description}\n`)
replaceDescription(readme, description) ==
    IF DescriptionMatchEnd(readme) = 0 THEN readme
    ELSE ReplaceAt(readme, 1, DescriptionMatchEnd(readme), description \o "\n")

\* /"[^"]+": "[^"]+"/ at index i: the index of the closing quote, or 0
PairMatchEnd(s, i) ==
    IF At(s, i) # "\"" THEN 0
    ELSE LET j == FirstOf(s, i + 1, {"\""})
         IN  IF j < i + 2 \/ Slice(s, j, j + 3) # "\": \"" THEN 0
             ELSE LET k == FirstOf(s, j + 4, {"\""})
                  IN  IF k >= j + 5 THEN k ELSE 0

\* the server-configuration stanza of the template literal
serverStanza(projectName) ==
    "\"" \o projectName \o "\": {\n"
    \o "      \"command\": \"node\",\n"
    \o "      \"args\": [\n"
    \o "        \"/absolute/path/to/" \o projectName \o "/dist/index.js\"\n"
    \o "      ]\n"
    \o "    }"

\* the matches of the global pattern from index `from` on, left to right:
\* a sequence of <<first, last>> index pairs
RECURSIVE PairMatches(_, _)
PairMatches(s, from) ==
    LET starts == {i \in from..Len(s) : PairMatchEnd(s, i) # 0}
    IN  IF starts = {} THEN <<>>
        ELSE <<<<Min(starts), PairMatchEnd(s, Min(starts))>>>>
             \o PairMatches(s, PairMatchEnd(s, Min(starts)) + 1)

\* s with each match (a sequence of index pairs, from index `from` on) replaced
RECURSIVE ReplaceMatches(_, _, _, _)
ReplaceMatches(s, from, matches, repl) ==
    IF matches = <<>> THEN Slice(s, from, Len(s))
    ELSE LET m == Head(matches)
         IN  Slice(s, from, m[1] - 1)
             \o Expand(repl, Slice(s, m[1], m[2]), Slice(s, 1, m[1] - 1),
                       Slice(s, m[2] + 1, Len(s)))
             \o ReplaceMatches(s, m[2] + 1, Tail(matches), repl)

\* a mutant of replacePairs: the pattern without its g flag
replacePairsFirstOnly(readme, projectName) ==
    LET matches == PairMatches(readme, 1)
    IN  IF matches = <<>> THEN readme
        ELSE ReplaceMatches(readme, 1, <<Head(matches)>>, serverStanza(projectName))

\* readme.replace(/"[^"]+": "[^"]+"/g, stanza)
replacePairs(readme, projectName) ==
    ReplaceMatches(readme, 1, PairMatches(readme, 1), serverStanza(projectName))

\* the three replacements of updateProjectMetadata, in the order of the code
rewriteReadme(readme, projectName, description) ==
    replacePairs(replaceDescription(replaceHeading(readme, projectName), description),
                 projectName)

(***************************************************************************)
(* Files and directories.  A file is its text, or, for a JSON file, the    *)
(* value JSON.parse gives for its text; a file JSON.parse throws on is     *)
(* malformed.  A directory is a function from the relative paths of the    *)
(* files under it to the files.                                            *)
(***************************************************************************)
TextFile(t) == [kind |-> "text", text |-> t, json |-> JNull]
JsonFile(v) == [kind |-> "json", text |-> "", json |-> v]
MalformedFile == [kind |-> "malformed", text |-> "{ oops", json |-> JNull]

NoFiles == [p \in {} |-> TextFile("")]
NoDir == [exists |-> FALSE, path |-> "", files |-> NoFiles]

\* b's entries over a's: object spread {...a, ...b}, and a copy over existing files
Merge(a, b) ==
    [k \in (DOMAIN a) \cup (DOMAIN b) |-> IF k \in DOMAIN b THEN b[k] ELSE a[k]]

\* fs.existsSync(path.join(dir, name))
FileExists(dir, name) == dir.exists /\ name \in DOMAIN dir.files

\* fs.writeFileSync(path.join(dir, name), file)
WriteFile(dir, name, file) ==
    [dir EXCEPT !.files = Merge(dir.files, [p \in {name} |-> file])]

\* the paths of a file and of the directories above it, relative to the root
PathsDownTo(p) == {Slice(p, 1, k) : k \in {k \in 1..Len(p) : k = Len(p) \/ At(p, k + 1) = "/"}}

\* fs.removeSync(path.join(dir, name)): the entry and everything under it
RemoveEntry(dir, name) ==
    [dir EXCEPT !.files = [p \in {q \in DOMAIN dir.files : name \notin PathsDownTo(q)}
                              |-> dir.files[p]]]

\* path.resolve(base, p) for the references the model draws: an absolute path
\* stands, a leading "./" and a trailing "/" go
RECURSIVE Normalize(_)
Normalize(p) ==
    IF StartsWith(p, "./") THEN Normalize(Slice(p, 3, Len(p)))
    ELSE IF Len(p) > 1 /\ EndsWith(p, "/") THEN Normalize(Slice(p, 1, Len(p) - 1))
    ELSE p
Resolve(base, p) ==
    IF StartsWith(p, "/") THEN Normalize(p)
    ELSE IF Normalize(p) \in {"", "."} THEN base
    ELSE base \o "/" \o Normalize(p)

\* Array.prototype.pop of a split
Last(seq) == seq[Len(seq)]

\* path.basename
basename(p) == Last(Split(Normalize(p), "/"))

Cwd == "/work"                      \* process.cwd()
InstallDir == "/opt/create-mcp"     \* dirname(__dirname)
ControlFile == "config-instructions.json"

(***************************************************************************)
(* fs.copySync(src, dest, {filter}) of fs-extra: the filter is asked about *)
(* the source root and about every entry under it, with the entry's full   *)
(* source path; a directory it rejects is not descended into; existing     *)
(* files are overwritten.                                                  *)
(***************************************************************************)
\* a mutant of copyFilter: nothing is kept back
copyFilterKeepsAll(src) == TRUE

\* a mutant of copyFilter: the control file is the only file let through
copyFilterInverted(src) == EndsWith(src, ControlFile)

\* filter: (src) => !src.endsWith("config-instructions.json")
copyFilter(src) == ~EndsWith(src, ControlFile)

\* the files of the source directory that the copy reaches
Copied(srcDir) ==
    IF ~copyFilter(srcDir.path) THEN {}
    ELSE {p \in DOMAIN srcDir.files :
             \A q \in PathsDownTo(p) : copyFilter(srcDir.path \o "/" \o q)}

copySync(srcDir, destDir, destPath) ==
    IF ~copyFilter(srcDir.path) THEN destDir
    ELSE [exists |-> TRUE, path |-> destPath,
          files |-> Merge(destDir.files, [p \in Copied(srcDir) |-> srcDir.files[p]])]

\* fs.mkdirSync(projectDir, {recursive: true})
mkdirSync(dir, dirPath) == IF dir.exists THEN dir ELSE [NoDir EXCEPT !.exists = TRUE, !.path = dirPath]

\* copyPromptsIfExist: the installation's prompts directory, unfiltered
PromptsFiles == [p \in {"prompts/guide.md"} |-> TextFile("prompt guide")]

\* a mutant of copyPromptsIfExist: the project directory is emptied first
copyPromptsIfExistReplaces(destDir, destPath, promptsExist) ==
    IF ~promptsExist THEN destDir
    ELSE [exists |-> TRUE, path |-> destPath, files |-> PromptsFiles]

copyPromptsIfExist(destDir, destPath, promptsExist) ==
    IF ~promptsExist THEN destDir
    ELSE [exists |-> TRUE, path |-> destPath, files |-> Merge(destDir.files, PromptsFiles)]

(***************************************************************************)
(* updateProjectMetadata                                                   *)
(***************************************************************************)
\* obj.key = val
SetProp(obj, key, val) == JObj(Merge(obj.fields, [k \in {key} |-> val]))

\* JSON.parse(fs.readFileSync(path)) throws: the text is no JSON
ParseThrows(file) == file.kind # "json"

\* a mutant of rewriteManifest: a manifest built from the three fields alone
rewriteManifestDropsOthers(pkgJson, projectName, description, authorName) ==
    JObj([name |-> JStr(projectName), description |-> JStr(description),
          author |-> JStr(authorName)])

\* pkgJson.name = ...; pkgJson.description = ...; pkgJson.author = ...
rewriteManifest(pkgJson, projectName, description, authorName) ==
    SetProp(SetProp(SetProp(pkgJson, "name", JStr(projectName)),
                    "description", JStr(description)),
            "author", JStr(authorName))

\* Reading package.json throws (no JSON), or setting a property of what was
\* parsed does (null, or a string, number or boolean in a module's strict mode).
manifestThrows(dir) ==
    /\ FileExists(dir, "package.json")
    /\ \/ ParseThrows(dir.files["package.json"])
       \/ dir.files["package.json"].json.type # "object"

\* a mutant of updateProjectMetadata: the files are written whether or not they exist
updateProjectMetadataCreates(dir, projectName, id) ==
    [threw |-> FALSE,
     dir |-> WriteFile(WriteFile(dir, "package.json",
                 JsonFile(rewriteManifest(JObj(NoFields), projectName,
                                          id.description, id.authorName))),
                 "README.md", TextFile("# " \o capitalizedName(projectName) \o "\n"))]

\* [threw, dir]: whether the function threw, and the project directory it leaves
updateProjectMetadata(dir, projectName, id) ==
    IF manifestThrows(dir) THEN [threw |-> TRUE, dir |-> dir]
    ELSE LET d1 == IF FileExists(dir, "package.json")
                   THEN WriteFile(dir, "package.json",
                            JsonFile(rewriteManifest(dir.files["package.json"].json,
                                         projectName, id.description, id.authorName)))
                   ELSE dir
             d2 == IF FileExists(d1, "README.md")
                   THEN WriteFile(d1, "README.md",
                            TextFile(rewriteReadme(d1.files["README.md"].text,
                                                   projectName, id.description)))
                   ELSE d1
         IN  [threw |-> FALSE, dir |-> d2]

(***************************************************************************)
(* customizeTemplate: the manifest and the configuration files.            *)
(***************************************************************************)
Digits == <<"0", "1", "2", "3", "4", "5", "6", "7", "8", "9">>

\* a JSON array: its elements under the keys "0", "1", ...
JArr(seq) ==
    [type |-> "array", s |-> "",
     fields |-> [k \in {Digits[i] : i \in 1..Len(seq)} |->
                    seq[CHOOSE i \in 1..Len(seq) : Digits[i] = k]]]

\* array.push(v)
Push(arr, v) ==
    [arr EXCEPT !.fields = Merge(arr.fields,
        [k \in {Digits[Cardinality(DOMAIN arr.fields) + 1]} |-> v])]

\* {...v}: the own properties of an object, nothing of undefined or null
Spread(v) == IF v.type \in {"object", "array"} THEN v.fields ELSE NoFields

eslintDevDependencies ==
    [k \in {"eslint", "@typescript-eslint/eslint-plugin", "@typescript-eslint/parser"} |->
        IF k = "eslint" THEN JStr("^9.0.0") ELSE JStr("^8.31.1")]

eslintScripts ==
    [k \in {"lint", "lint:fix"} |->
        IF k = "lint" THEN JStr("eslint 'src/**/*.ts'")
        ELSE JStr("eslint 'src/**/*.ts' --fix")]

eslintConfig ==
    JObj([parser |-> JStr("@typescript-eslint/parser"),
          extends |-> JArr(<<JStr("eslint:recommended"),
                             JStr("plugin:@typescript-eslint/recommended")>>),
          parserOptions |-> JObj([ecmaVersion |-> JNum("2022"),
                                  sourceType |-> JStr("module")]),
          rules |-> JObj(NoFields)])

prettierDevDependencies == [k \in {"prettier"} |-> JStr("^3.2.5")]

eslintPrettierDevDependencies ==
    [k \in {"eslint-config-prettier", "eslint-plugin-prettier"} |->
        IF k = "eslint-config-prettier" THEN JStr("^9.1.0") ELSE JStr("^5.1.3")]

prettierScripts == [k \in {"format"} |-> JStr("prettier --write 'src/**/*.ts'")]

prettierConfig ==
    JObj([semi |-> JBool("true"), trailingComma |-> JStr("es5"),
          singleQuote |-> JBool("true"), printWidth |-> JNum("100"),
          tabWidth |-> JNum("2")])

\* a mutant of MergeInto: the added entries alone, without the spread
MergeIntoReplaces(pkgJson, key, added) == SetProp(pkgJson, key, JObj(added))

\* pkgJson.key = {...pkgJson.key, ...added}
MergeInto(pkgJson, key, added) ==
    SetProp(pkgJson, key, JObj(Merge(Spread(Prop(pkgJson, key)), added)))

\* the if (useEslint) block: the manifest it leaves
eslintManifest(pkgJson) ==
    MergeInto(MergeInto(pkgJson, "devDependencies", eslintDevDependencies),
              "scripts", eslintScripts)

\* a mutant of prettierManifest: the eslint-prettier packages whatever useEslint is
prettierManifestBothPackages(pkgJson, useEslint) ==
    MergeInto(MergeInto(MergeInto(pkgJson, "devDependencies", prettierDevDependencies),
                        "devDependencies", eslintPrettierDevDependencies),
              "scripts", prettierScripts)

\* the if (usePrettier) block: the manifest it leaves
prettierManifest(pkgJson, useEslint) ==
    LET p1 == MergeInto(pkgJson, "devDependencies", prettierDevDependencies)
        p2 == IF useEslint
              THEN MergeInto(p1, "devDependencies", eslintPrettierDevDependencies)
              ELSE p1
    IN  MergeInto(p2, "scripts", prettierScripts)

\* the if (usePrettier && useEslint) update of .eslintrc.json; [threw, dir]
augmentEslintConfig(dir) ==
    IF ~FileExists(dir, ".eslintrc.json") THEN [threw |-> FALSE, dir |-> dir]
    ELSE LET file == dir.files[".eslintrc.json"]
         IN  IF ParseThrows(file) \/ Prop(file.json, "extends").type # "array"
             THEN [threw |-> TRUE, dir |-> dir]
             ELSE [threw |-> FALSE,
                   dir |-> WriteFile(dir, ".eslintrc.json",
                              JsonFile(SetProp(file.json, "extends",
                                  Push(Prop(file.json, "extends"),
                                       JStr("plugin:prettier/recommended")))))]

\* a mutant of customizeManifest: an .eslintrc.json that is there is kept, not
\* written anew
customizeManifestKeepsEslintrc(dir, useEslint, usePrettier) ==
    IF ~FileExists(dir, "package.json") THEN [threw |-> FALSE, dir |-> dir]
    ELSE IF ParseThrows(dir.files["package.json"]) THEN [threw |-> TRUE, dir |-> dir]
    ELSE LET pkg0 == dir.files["package.json"].json
             pkg1 == IF useEslint THEN eslintManifest(pkg0) ELSE pkg0
             d1 == IF useEslint /\ ~FileExists(dir, ".eslintrc.json")
                   THEN WriteFile(dir, ".eslintrc.json", JsonFile(eslintConfig))
                   ELSE dir
             pkg2 == IF usePrettier THEN prettierManifest(pkg1, useEslint) ELSE pkg1
             aug == IF usePrettier /\ useEslint THEN augmentEslintConfig(d1)
                    ELSE [threw |-> FALSE, dir |-> d1]
             d3 == IF usePrettier
                   THEN WriteFile(aug.dir, ".prettierrc", JsonFile(prettierConfig))
                   ELSE aug.dir
         IN  IF aug.threw THEN aug
             ELSE [threw |-> FALSE, dir |-> WriteFile(d3, "package.json", JsonFile(pkg2))]

\* a mutant of customizeManifest: the configuration files are written whether
\* the directory has a manifest or not
customizeManifestConfigsAnyway(dir, useEslint, usePrettier) ==
    IF ~FileExists(dir, "package.json")
    THEN [threw |-> FALSE,
          dir |-> IF usePrettier
                  THEN WriteFile(IF useEslint
                                 THEN WriteFile(dir, ".eslintrc.json", JsonFile(eslintConfig))
                                 ELSE dir,
                                 ".prettierrc", JsonFile(prettierConfig))
                  ELSE IF useEslint
                       THEN WriteFile(dir, ".eslintrc.json", JsonFile(eslintConfig))
                       ELSE dir]
    ELSE IF ParseThrows(dir.files["package.json"]) THEN [threw |-> TRUE, dir |-> dir]
    ELSE LET pkg0 == dir.files["package.json"].json
             pkg1 == IF useEslint THEN eslintManifest(pkg0) ELSE pkg0
             d1 == IF useEslint
                   THEN WriteFile(dir, ".eslintrc.json", JsonFile(eslintConfig))
                   ELSE dir
             pkg2 == IF usePrettier THEN prettierManifest(pkg1, useEslint) ELSE pkg1
             aug == IF usePrettier /\ useEslint THEN augmentEslintConfig(d1)
                    ELSE [threw |-> FALSE, dir |-> d1]
             d3 == IF usePrettier
                   THEN WriteFile(aug.dir, ".prettierrc", JsonFile(prettierConfig))
                   ELSE aug.dir
         IN  IF aug.threw THEN aug
             ELSE [threw |-> FALSE, dir |-> WriteFile(d3, "package.json", JsonFile(pkg2))]

\* the part of customizeTemplate after the prompts; [threw, dir]
customizeManifest(dir, useEslint, usePrettier) ==
    IF ~FileExists(dir, "package.json") THEN [threw |-> FALSE, dir |-> dir]
    ELSE IF ParseThrows(dir.files["package.json"]) THEN [threw |-> TRUE, dir |-> dir]
    ELSE LET pkg0 == dir.files["package.json"].json
             pkg1 == IF useEslint THEN eslintManifest(pkg0) ELSE pkg0
             d1 == IF useEslint
                   THEN WriteFile(dir, ".eslintrc.json", JsonFile(eslintConfig))
                   ELSE dir
             pkg2 == IF usePrettier THEN prettierManifest(pkg1, useEslint) ELSE pkg1
             aug == IF usePrettier /\ useEslint THEN augmentEslintConfig(d1)
                    ELSE [threw |-> FALSE, dir |-> d1]
             d3 == IF usePrettier
                   THEN WriteFile(aug.dir, ".prettierrc", JsonFile(prettierConfig))
                   ELSE aug.dir
         IN  IF aug.threw THEN aug
             ELSE [threw |-> FALSE, dir |-> WriteFile(d3, "package.json", JsonFile(pkg2))]

\* customizeTemplate as a whole, the two prompts answered; [threw, dir]
customizeTemplate(dir, projectName, id, promptsExist, useEslint, usePrettier) ==
    LET meta == updateProjectMetadata(dir, projectName, id)
    IN  IF meta.threw THEN meta
        ELSE customizeManifest(copyPromptsIfExist(meta.dir, meta.dir.path, promptsExist),
                               useEslint, usePrettier)

(***************************************************************************)
(* The control file and printConfigInstructions.                           *)
(***************************************************************************)
\* a mutant of readControlFile: a parse failure is not caught
readControlFileThrows(dir) ==
    IF ~FileExists(dir, ControlFile) THEN [threw |-> FALSE, value |-> JNull]
    ELSE IF ParseThrows(dir.files[ControlFile]) THEN [threw |-> TRUE, value |-> JNull]
    ELSE [threw |-> FALSE, value |-> dir.files[ControlFile].json]

\* if (fs.existsSync(templateConfigPath)) { try { configInstructions = JSON.parse(...) }
\* catch { warn } }: [threw, value], the value null when nothing was parsed
readControlFile(dir) ==
    IF FileExists(dir, ControlFile) /\ ~ParseThrows(dir.files[ControlFile])
    THEN [threw |-> FALSE, value |-> dir.files[ControlFile].json]
    ELSE [threw |-> FALSE, value |-> JNull]

\* the return statement of the three handlers
makeResult(templateName, instructions) ==
    [templateName |-> templateName,
     transportType |-> determineTransportType(instructions, templateName),
     configInstructions |-> instructions]

NoResult == [templateName |-> "", transportType |-> JUndefined, configInstructions |-> JUndefined]
NothingRendered == [mode |-> "none", platforms |-> {}]

\* the keys Object.entries(instructions).filter(key !== "transportType") leaves
platformKeys(instructions) == (DOMAIN Spread(instructions)) \ {"transportType"}

\* reading config.configPath throws: a platform's entry is null
renderThrows(result) ==
    /\ Truthy(result.configInstructions)
    /\ \E k \in platformKeys(result.configInstructions) :
          result.configInstructions.fields[k].type = "null"

\* a mutant of printConfigInstructions: the stdio text whatever the transport
printConfigInstructionsStdioOnly(result) ==
    IF Truthy(result.configInstructions)
    THEN [mode |-> "custom", platforms |-> platformKeys(result.configInstructions)]
    ELSE [mode |-> "default-stdio",
          platforms |-> {"Claude Desktop", "VS Code", "Cursor IDE"}]

\* what is printed: the template's own entries, or the built-in text for the transport
printConfigInstructions(result) ==
    IF Truthy(result.configInstructions)
    THEN [mode |-> "custom", platforms |-> platformKeys(result.configInstructions)]
    ELSE IF result.transportType = JStr("http")
         THEN [mode |-> "default-http",
               platforms |-> {"Claude Desktop", "VS Code", "Cursor IDE"}]
         ELSE [mode |-> "default-stdio",
               platforms |-> {"Claude Desktop", "VS Code", "Cursor IDE"}]

(***************************************************************************)
(* printConfigInstructions: the placeholders.  The control document is     *)
(* serialized, the two placeholders are replaced in the text, and the text *)
(* is parsed again.  Documents are objects of objects and strings (with    *)
(* numbers, booleans and null), as the README describes them; the escapes  *)
(* \b and \u are drawn by no input and are not lexed.                      *)
(***************************************************************************)
\* JSON.stringify(value), without indentation
RECURSIVE stringify(_)
stringify(v) ==
    LET RECURSIVE Escape(_)
        Escape(str) ==
            LET k == FirstOf(str, 1, {"\"", "\\", "\n", "\t", "\r"})
                c == At(str, k)
            IN  IF k = 0 THEN str
                ELSE Slice(str, 1, k - 1)
                     \o (CASE c = "\"" -> "\\\""
                            [] c = "\\" -> "\\\\"
                            [] c = "\n" -> "\\n"
                            [] c = "\t" -> "\\t"
                            [] OTHER -> "\\r")
                     \o Escape(Slice(str, k + 1, Len(str)))
        Quote(str) == "\"" \o Escape(str) \o "\""
        RECURSIVE Members(_)
        Members(keys) ==
            IF keys = {} THEN ""
            ELSE LET k == CHOOSE x \in keys : TRUE
                 IN  Quote(k) \o ":" \o stringify(v.fields[k])
                     \o (IF keys = {k} THEN "" ELSE ",") \o Members(keys \ {k})
    IN  CASE v.type = "string" -> Quote(v.s)
          [] v.type = "object" -> "{" \o Members(DOMAIN v.fields) \o "}"
          [] v.type \in {"number", "boolean"} -> v.s
          [] OTHER -> "null"

\* text.replace(/\$\{placeholder\}/g, repl): every match of the literal text,
\* left to right, with the replacement patterns of repl expanded
replacePlaceholder(text, placeholder, repl) ==
    LET n == Len(placeholder)
        RECURSIVE Matches(_)
        Matches(from) ==
            LET starts == {i \in from..(Len(text) - n + 1) :
                              Slice(text, i, i + n - 1) = placeholder}
            IN  IF starts = {} THEN <<>>
                ELSE <<<<Min(starts), Min(starts) + n - 1>>>> \o Matches(Min(starts) + n)
    IN  ReplaceMatches(text, 1, Matches(1), repl)

\* JSON.parse, whitespace: the first index from i on that holds none
SkipWs(text, i) ==
    LET rest == {k \in i..Len(text) : At(text, k) \notin {" ", "\n", "\t", "\r"}}
    IN  IF rest = {} THEN Len(text) + 1 ELSE Min(rest)

ParseFailed == [ok |-> FALSE, value |-> JNull, next |-> 0]

\* JSON.parse, a string whose opening quote is before index j; acc is what was
\* read of it: [ok, value, next]
RECURSIVE parseString(_, _, _)
parseString(text, j, acc) ==
    Bind(FirstOf(text, j, {"\"", "\\", "\n", "\t", "\r"}), LAMBDA k :
        IF k = 0 THEN ParseFailed
        ELSE IF At(text, k) = "\""
        THEN [ok |-> TRUE, value |-> acc \o Slice(text, j, k - 1), next |-> k + 1]
        ELSE IF At(text, k) # "\\" THEN ParseFailed
        ELSE IF At(text, k + 1) \notin {"\"", "\\", "/", "n", "t", "r"} THEN ParseFailed
        ELSE parseString(text, k + 2,
                         acc \o Slice(text, j, k - 1)
                             \o (CASE At(text, k + 1) = "n" -> "\n"
                                   [] At(text, k + 1) = "t" -> "\t"
                                   [] At(text, k + 1) = "r" -> "\r"
                                   [] OTHER -> At(text, k + 1))))

\* JSON.parse, a value from index i0 on, and the members of an object from
\* index i0 on (fields is what was read of them): [ok, value, next]
RECURSIVE parseValue(_, _), parseMembers(_, _, _)
parseValue(text, i0) ==
    Bind(SkipWs(text, i0), LAMBDA i :
        IF At(text, i) = "\""
        THEN Bind(parseString(text, i + 1, ""), LAMBDA str :
                 IF str.ok THEN [str EXCEPT !.value = JStr(str.value)] ELSE ParseFailed)
        ELSE IF At(text, i) = "{"
        THEN Bind(SkipWs(text, i + 1), LAMBDA close :
                 IF At(text, close) = "}"
                 THEN [ok |-> TRUE, value |-> JObj(NoFields), next |-> close + 1]
                 ELSE parseMembers(text, close, NoFields))
        ELSE IF Slice(text, i, i + 3) \in {"null", "true"}
        THEN [ok |-> TRUE, next |-> i + 4,
              value |-> IF At(text, i) = "n" THEN JNull ELSE JBool("true")]
        ELSE IF Slice(text, i, i + 4) = "false"
        THEN [ok |-> TRUE, value |-> JBool("false"), next |-> i + 5]
        ELSE Bind({k \in i..Len(text) :
                      \A m \in i..k : At(text, m) \in {Digits[x] : x \in 1..10}},
                  LAMBDA digits :
                 IF digits = {} THEN ParseFailed
                 ELSE [ok |-> TRUE, value |-> JNum(Slice(text, i, i + Cardinality(digits) - 1)),
                       next |-> i + Cardinality(digits)]))

parseMembers(text, i, fields) ==
    IF At(text, i) # "\"" THEN ParseFailed
    ELSE Bind(parseString(text, i + 1, ""), LAMBDA key :
    IF ~key.ok THEN ParseFailed
    ELSE Bind(SkipWs(text, key.next), LAMBDA colon :
    IF At(text, colon) # ":" THEN ParseFailed
    ELSE Bind(parseValue(text, colon + 1), LAMBDA val :
    IF ~val.ok THEN ParseFailed
    ELSE Bind(SkipWs(text, val.next), LAMBDA after :
    IF At(text, after) = "}"
    THEN [ok |-> TRUE, next |-> after + 1,
          value |-> JObj(Merge(fields, [k \in {key.value} |-> val.value]))]
    ELSE IF At(text, after) # "," THEN ParseFailed
    ELSE parseMembers(text, SkipWs(text, after + 1),
                      Merge(fields, [k \in {key.value} |-> val.value]))))))

\* JSON.parse(text): [threw, value]
JSONparse(text) ==
    Bind(parseValue(text, 1), LAMBDA top :
        IF top.ok /\ SkipWs(text, top.next) = Len(text) + 1
        THEN [threw |-> FALSE, value |-> top.value]
        ELSE [threw |-> TRUE, value |-> JNull])

\* JSON.parse(JSON.stringify(configInstructions).replace(...).replace(...)):
\* [threw, value]
processInstructions(instructions, projectName, projectDir) ==
    JSONparse(replacePlaceholder(
                  replacePlaceholder(stringify(instructions), "${projectName}", projectName),
                  "${projectDir}", projectDir))

(***************************************************************************)
(* Spec: what one invocation is given.                                     *)
(***************************************************************************)
ProjectNames == {"my-cool-server"}

\* the two prompts answered, or left at their defaults
Identities(projectName) ==
    { [description |-> "X", authorName |-> "A"],
      [description |-> projectName \o " - A Model Context Protocol server",
       authorName |-> "posidron"] }

Templates ==
    {"basic-stdio", "basic-http", "templates/extra", "my-http-tpl",
     "./tpl-config-instructions.json", "https://github.com/u/mcp-template"}

ManifestFull ==
    JObj([name |-> JStr("minimal-mcp-server"), version |-> JStr("1.0.0"),
          description |-> JStr("Minimal MCP server"), author |-> JStr("someone"),
          scripts |-> JObj([build |-> JStr("tsc")]),
          devDependencies |-> JObj([typescript |-> JStr("^5.0.0")])])

\* a manifest without name, description, author or devDependencies, with its own
\* lint and format scripts
ManifestOwnScripts ==
    JObj([version |-> JStr("0.1.0"),
          scripts |-> JObj([lint |-> JStr("biome lint"), format |-> JStr("biome format")])])

\* the head and one configuration example of templates/basic-stdio/README.md
BuiltInReadme ==
    "# Minimal MCP Server (stdio transport)\n\nA simple server.\n\n## Configuration\n\n"
    \o "\"mcp\": {\n  \"servers\": {\n    \"minimal-mcp-server\": {\n"
    \o "      \"type\": \"stdio\",\n      \"command\": \"node\"\n    }\n  }\n}\n"

\* a README that matches none of the three patterns
PlainReadme == "plain notes"

PlatformEntry ==
    JObj([configPath |-> JStr("$HOME/.cursor/mcp.json"), instructions |-> JStr("Add:"),
          snippet |-> JStr("{}")])

ControlHttp ==
    JObj([k \in {"transportType", "Claude Desktop"} |->
            IF k = "transportType" THEN JStr("http") ELSE PlatformEntry])

ControlNoTransport == JObj([k \in {"VS Code"} |-> PlatformEntry])

\* a file that may be absent: <<>> or <<file>>
ManifestChoices == {<<>>, <<MalformedFile>>, <<JsonFile(ManifestFull)>>,
                    <<JsonFile(ManifestOwnScripts)>>}
ReadmeChoices == {<<>>, <<TextFile(BuiltInReadme)>>, <<TextFile(PlainReadme)>>}
ControlChoices == {<<>>, <<MalformedFile>>, <<JsonFile(ControlHttp)>>,
                   <<JsonFile(ControlNoTransport)>>}

Optional(name, choice) ==
    IF choice = <<>> THEN NoFiles ELSE [p \in {name} |-> choice[1]]

SourceFiles == [p \in {"src/index.ts"} |-> TextFile("server")]

\* files and a directory whose names end with the control file's name
SuffixNamedFiles ==
    [p \in {"my-config-instructions.json", "docs-config-instructions.json/a.md",
            "src/config-instructions.json"} |-> TextFile(p)]

TemplateTrees ==
    { Merge(Merge(Merge(Merge(SourceFiles, Optional("package.json", m)),
                        Optional("README.md", r)),
                  Optional(ControlFile, c)),
            IF x THEN SuffixNamedFiles ELSE NoFiles) :
        m \in ManifestChoices, r \in ReadmeChoices, c \in ControlChoices, x \in BOOLEAN }

\* what git clone adds to the repository's files
GitFiles == [p \in {".git/HEAD"} |-> TextFile("ref: refs/heads/main")]

\* Date.now()
Clock == {"1717171717171"}

\* the project directory: path.resolve(process.cwd(), projectName)
ProjectDir == Resolve(Cwd, args.projectName)

\* the directory of the template: of a built-in one inside the installation, of a
\* local one under the working directory
TemplateDir(template) ==
    IF Classify(template) = "BuiltIn" THEN InstallDir \o "/templates/" \o Normalize(template)
    ELSE IF Classify(template) = "LocalPath" THEN Resolve(Cwd, template)
    ELSE template

\* a project directory left by an earlier run
OldProject(dirPath) ==
    [exists |-> TRUE, path |-> dirPath,
     files |-> [p \in {"old.txt", ControlFile} |-> TextFile("old")]]

Running == [code |-> -1, why |-> "running"]
IdleProbe == [op |-> "none", done |-> TRUE]

Init ==
    /\ pc = "start"
    /\ \E name \in ProjectNames, t \in Templates, i \in BOOLEAN, c \in BOOLEAN :
          args = [projectName |-> name, template |-> t, install |-> i, customize |-> c]
    /\ \E ex \in (IF Classify(args.template) = "RemoteRepository" THEN {TRUE} ELSE BOOLEAN),
          pr \in BOOLEAN :
          \E tree \in (IF ex THEN TemplateTrees ELSE {NoFiles}) :
             env = [tpl |-> [exists |-> ex, path |-> TemplateDir(args.template),
                             files |-> tree],
                    promptsExist |-> pr]
    /\ identity = [description |-> "", authorName |-> ""]
    /\ choices = [useEslint |-> FALSE, usePrettier |-> FALSE]
    /\ dest \in {NoDir, OldProject(ProjectDir)}
    /\ tempDir = NoDir
    /\ configInstructions = JNull
    /\ templateResult = NoResult
    /\ rendered = NothingRendered
    /\ exit = Running
    /\ probe = IdleProbe

Exit(code, why) ==
    /\ pc' = "exit"
    /\ exit' = [code |-> code, why |-> why]

(***************************************************************************)
(* program.action: the project directory and the prompts.                  *)
(***************************************************************************)
\* a mutant of DeclineOverwrite: the directory is removed before the answer
DeclineOverwriteRemoves ==
    /\ pc = "start" /\ dest.exists
    /\ dest' = NoDir
    /\ Exit(0, "cancelled")
    /\ UNCHANGED <<args, env, identity, choices, tempDir, configInstructions,
                   templateResult, rendered, probe>>

\* the directory exists and the user declines: process.exit(0)
DeclineOverwrite ==
    /\ pc = "start" /\ dest.exists
    /\ Exit(0, "cancelled")
    /\ UNCHANGED <<args, env, identity, choices, dest, tempDir, configInstructions,
                   templateResult, rendered, probe>>

\* the directory exists and the user confirms: fs.removeSync(projectDir)
ConfirmOverwrite ==
    /\ pc = "start" /\ dest.exists
    /\ dest' = NoDir
    /\ pc' = "prompt"
    /\ UNCHANGED <<args, env, identity, choices, tempDir, configInstructions,
                   templateResult, rendered, exit, probe>>

NoOverwrite ==
    /\ pc = "start" /\ ~dest.exists
    /\ pc' = "prompt"
    /\ UNCHANGED <<args, env, identity, choices, dest, tempDir, configInstructions,
                   templateResult, rendered, exit, probe>>

\* the description and author prompts, then the dispatch on the kind of template
PromptIdentity ==
    /\ pc = "prompt"
    /\ identity' \in Identities(args.projectName)
    /\ pc' = CASE Classify(args.template) = "RemoteRepository" -> "gh_clone"
               [] Classify(args.template) = "LocalPath" -> "custom_check"
               [] OTHER -> "builtin_check"
    /\ UNCHANGED <<args, env, choices, dest, tempDir, configInstructions,
                   templateResult, rendered, exit, probe>>

(***************************************************************************)
(* Statement groups the three handlers share.                              *)
(***************************************************************************)
\* fs.mkdirSync(projectDir, {recursive: true})
StepMkdir(at, next) ==
    /\ pc = at
    /\ dest' = mkdirSync(dest, ProjectDir)
    /\ pc' = next
    /\ UNCHANGED <<args, env, identity, choices, tempDir, configInstructions,
                   templateResult, rendered, exit, probe>>

\* fs.copySync(src, projectDir, {filter})
StepCopy(at, src, next) ==
    /\ pc = at
    /\ dest' = copySync(src, dest, ProjectDir)
    /\ pc' = next
    /\ UNCHANGED <<args, env, identity, choices, tempDir, configInstructions,
                   templateResult, rendered, exit, probe>>

\* copyPromptsIfExist(projectDir)
StepPrompts(at, next) ==
    /\ pc = at
    /\ dest' = copyPromptsIfExist(dest, ProjectDir, env.promptsExist)
    /\ pc' = next
    /\ UNCHANGED <<args, env, identity, choices, tempDir, configInstructions,
                   templateResult, rendered, exit, probe>>

\* updateProjectMetadata(projectDir, ...); what it throws ends the run in the
\* catch of program.action
StepMetadata(at, next) ==
    /\ pc = at
    /\ LET r == updateProjectMetadata(dest, args.projectName, identity)
       IN  IF r.threw
           THEN Exit(1, "metadata") /\ UNCHANGED dest
           ELSE dest' = r.dir /\ pc' = next /\ UNCHANGED exit
    /\ UNCHANGED <<args, env, identity, choices, tempDir, configInstructions,
                   templateResult, rendered, probe>>

\* the control file of the template directory, read into configInstructions
StepConfig(at, dir, next) ==
    /\ pc = at
    /\ LET r == readControlFile(dir)
       IN  IF r.threw
           THEN Exit(1, "control file") /\ UNCHANGED configInstructions
           ELSE configInstructions' = r.value /\ pc' = next /\ UNCHANGED exit
    /\ UNCHANGED <<args, env, identity, choices, dest, tempDir, templateResult,
                   rendered, probe>>

\* return {templateName, transportType, configInstructions}
StepReturn(at, templateName) ==
    /\ pc = at
    /\ templateResult' = makeResult(templateName, configInstructions)
    /\ pc' = "install"
    /\ UNCHANGED <<args, env, identity, choices, dest, tempDir, configInstructions,
                   rendered, exit, probe>>

(***************************************************************************)
(* handleGitHubTemplate                                                    *)
(***************************************************************************)
\* execSync(`git clone ${repoUrl} ${tempDir}`) succeeds
GitClone ==
    /\ pc = "gh_clone"
    /\ \E now \in Clock :
          tempDir' = [exists |-> TRUE, path |-> Cwd \o "/.temp-" \o now,
                      files |-> Merge(env.tpl.files, GitFiles)]
    /\ pc' = "gh_strip"
    /\ UNCHANGED <<args, env, identity, choices, dest, configInstructions,
                   templateResult, rendered, exit, probe>>

\* a mutant of GitCloneFails: the project directory is made before the clone
GitCloneFailsAfterMkdir ==
    /\ pc = "gh_clone"
    /\ \E now \in Clock, created \in BOOLEAN :
          tempDir' = [exists |-> created, path |-> Cwd \o "/.temp-" \o now,
                      files |-> IF created THEN GitFiles ELSE NoFiles]
    /\ dest' = mkdirSync(dest, ProjectDir)
    /\ Exit(1, "clone")
    /\ UNCHANGED <<args, env, identity, choices, configInstructions,
                   templateResult, rendered, probe>>

\* the clone fails, with the temporary directory created or not: the handler's
\* catch logs and rethrows, the catch of program.action exits with 1
GitCloneFails ==
    /\ pc = "gh_clone"
    /\ \E now \in Clock, created \in BOOLEAN :
          tempDir' = [exists |-> created, path |-> Cwd \o "/.temp-" \o now,
                      files |-> IF created THEN GitFiles ELSE NoFiles]
    /\ Exit(1, "clone")
    /\ UNCHANGED <<args, env, identity, choices, dest, configInstructions,
                   templateResult, rendered, probe>>

\* fs.removeSync(path.join(tempDir, ".git"))
GitStrip ==
    /\ pc = "gh_strip"
    /\ tempDir' = RemoveEntry(tempDir, ".git")
    /\ pc' = "gh_mkdir"
    /\ UNCHANGED <<args, env, identity, choices, dest, configInstructions,
                   templateResult, rendered, exit, probe>>

\* a statement between the clone and the cleanup throws (fs.removeSync of .git,
\* fs.mkdirSync, or fs.copySync with none or some of the files written): the
\* handler's catch logs and rethrows, the catch of program.action exits with 1
GitStatementThrows ==
    /\ pc \in {"gh_strip", "gh_mkdir", "gh_copy"}
    /\ \E part \in SUBSET ({"src/index.ts"} \cap Copied(tempDir)) :
          dest' = IF pc = "gh_copy" /\ part # {}
                  THEN [dest EXCEPT !.files = Merge(dest.files,
                                                    [p \in part |-> tempDir.files[p]])]
                  ELSE dest
    /\ Exit(1, CASE pc = "gh_strip" -> "strip" [] pc = "gh_mkdir" -> "mkdir"
                  [] OTHER -> "copy")
    /\ UNCHANGED <<args, env, identity, choices, tempDir, configInstructions,
                   templateResult, rendered, probe>>

GitMkdir == StepMkdir("gh_mkdir", "gh_copy")
GitCopy == StepCopy("gh_copy", tempDir, "gh_config")
\* a mutant of GitConfig: the control file is looked up where the snapshot was,
\* after its deletion
GitConfigAfterDeletion ==
    StepConfig("gh_config", [NoDir EXCEPT !.path = tempDir.path], "gh_cleanup")

\* const templateConfigPath = path.join(tempDir, "config-instructions.json"); ...
GitConfig == StepConfig("gh_config", tempDir, "gh_cleanup")

\* fs.removeSync(tempDir)
GitCleanup ==
    /\ pc = "gh_cleanup"
    /\ tempDir' = [NoDir EXCEPT !.path = tempDir.path]
    /\ pc' = "gh_prompts"
    /\ UNCHANGED <<args, env, identity, choices, dest, configInstructions,
                   templateResult, rendered, exit, probe>>

GitPrompts == StepPrompts("gh_prompts", "gh_metadata")
GitMetadata == StepMetadata("gh_metadata", "gh_return")
\* templateName = repoUrl.split("/").pop()
GitReturn == StepReturn("gh_return", Last(Split(args.template, "/")))

(***************************************************************************)
(* handleCustomTemplate                                                    *)
(***************************************************************************)
\* a mutant of CustomCheck: the project directory is made before the check
CustomCheckAfterMkdir ==
    /\ pc = "custom_check"
    /\ dest' = mkdirSync(dest, ProjectDir)
    /\ IF env.tpl.exists THEN pc' = "custom_mkdir" /\ UNCHANGED exit
       ELSE Exit(1, "TemplateNotFound")
    /\ UNCHANGED <<args, env, identity, choices, tempDir, configInstructions,
                   templateResult, rendered, probe>>

\* if (!fs.existsSync(templateDir)) throw
CustomCheck ==
    /\ pc = "custom_check"
    /\ IF env.tpl.exists THEN pc' = "custom_mkdir" /\ UNCHANGED exit
       ELSE Exit(1, "TemplateNotFound")
    /\ UNCHANGED <<args, env, identity, choices, dest, tempDir, configInstructions,
                   templateResult, rendered, probe>>

CustomMkdir == StepMkdir("custom_mkdir", "custom_copy")
CustomCopy == StepCopy("custom_copy", env.tpl, "custom_prompts")
CustomPrompts == StepPrompts("custom_prompts", "custom_metadata")
CustomMetadata == StepMetadata("custom_metadata", "custom_config")
CustomConfig == StepConfig("custom_config", env.tpl, "custom_return")
\* templateName = path.basename(templatePath)
CustomReturn == StepReturn("custom_return", basename(args.template))

(***************************************************************************)
(* handleBuiltInTemplate and customizeTemplate                             *)
(***************************************************************************)
\* if (!fs.existsSync(templateDir)) process.exit(1)
BuiltInCheck ==
    /\ pc = "builtin_check"
    /\ IF env.tpl.exists THEN pc' = "builtin_copy" /\ UNCHANGED exit
       ELSE Exit(1, "TemplateNotFound")
    /\ UNCHANGED <<args, env, identity, choices, dest, tempDir, configInstructions,
                   templateResult, rendered, probe>>

BuiltInCopy == StepCopy("builtin_copy", env.tpl, "builtin_prompts")
\* a mutant of BuiltInPrompts: customizeTemplate whatever options.customize is
BuiltInPromptsCustomizes == StepPrompts("builtin_prompts", "cust_metadata")

\* copyPromptsIfExist, then if (options.customize)
BuiltInPrompts ==
    StepPrompts("builtin_prompts",
                IF args.customize THEN "cust_metadata" ELSE "builtin_metadata")
BuiltInMetadata == StepMetadata("builtin_metadata", "builtin_config")

CustomizeMetadata == StepMetadata("cust_metadata", "cust_prompts")
CustomizePrompts == StepPrompts("cust_prompts", "cust_ask")

\* the ESLint and Prettier prompts
CustomizeAsk ==
    /\ pc = "cust_ask"
    /\ \E e \in BOOLEAN, p \in BOOLEAN : choices' = [useEslint |-> e, usePrettier |-> p]
    /\ pc' = "cust_manifest"
    /\ UNCHANGED <<args, env, identity, dest, tempDir, configInstructions,
                   templateResult, rendered, exit, probe>>

\* a mutant of CustomizeManifest: the metadata rewrite comes after it
CustomizeManifestThenMetadata ==
    /\ pc = "cust_manifest"
    /\ LET r == customizeManifest(dest, choices.useEslint, choices.usePrettier)
       IN  IF r.threw
           THEN Exit(1, "customize") /\ UNCHANGED dest
           ELSE dest' = r.dir /\ pc' = "builtin_metadata" /\ UNCHANGED exit
    /\ UNCHANGED <<args, env, identity, choices, tempDir, configInstructions,
                   templateResult, rendered, probe>>

\* the manifest and the configuration files, written
CustomizeManifest ==
    /\ pc = "cust_manifest"
    /\ LET r == customizeManifest(dest, choices.useEslint, choices.usePrettier)
       IN  IF r.threw
           THEN Exit(1, "customize") /\ UNCHANGED dest
           ELSE dest' = r.dir /\ pc' = "builtin_config" /\ UNCHANGED exit
    /\ UNCHANGED <<args, env, identity, choices, tempDir, configInstructions,
                   templateResult, rendered, probe>>

BuiltInConfig == StepConfig("builtin_config", env.tpl, "builtin_return")
BuiltInReturn == StepReturn("builtin_return", args.template)

(***************************************************************************)
(* program.action: the install and the report.                             *)
(***************************************************************************)
\* options.install is off
SkipInstall ==
    /\ pc = "install" /\ ~args.install
    /\ pc' = "report"
    /\ UNCHANGED <<args, env, identity, choices, dest, tempDir, configInstructions,
                   templateResult, rendered, exit, probe>>

\* execSync("npm install --no-fund") returns
Install ==
    /\ pc = "install" /\ args.install
    /\ pc' = "report"
    /\ UNCHANGED <<args, env, identity, choices, dest, tempDir, configInstructions,
                   templateResult, rendered, exit, probe>>

\* execSync("npm install --no-fund") throws
InstallFails ==
    /\ pc = "install" /\ args.install
    /\ Exit(1, "install")
    /\ UNCHANGED <<args, env, identity, choices, dest, tempDir, configInstructions,
                   templateResult, rendered, probe>>

\* the success message and printConfigInstructions; the action returns
Report ==
    /\ pc = "report"
    /\ LET processed ==
               IF Truthy(templateResult.configInstructions)
               THEN processInstructions(templateResult.configInstructions,
                                        args.projectName, ProjectDir)
               ELSE [threw |-> FALSE, value |-> templateResult.configInstructions]
           result == [templateResult EXCEPT !.configInstructions = processed.value]
       IN  IF processed.threw \/ renderThrows(result)
           THEN Exit(1, "report") /\ UNCHANGED rendered
           ELSE rendered' = printConfigInstructions(result) /\ Exit(0, "success")
    /\ UNCHANGED <<args, env, identity, choices, dest, tempDir, configInstructions,
                   templateResult, probe>>

Next ==
    \/ DeclineOverwrite \/ ConfirmOverwrite \/ NoOverwrite \/ PromptIdentity
    \/ GitClone \/ GitCloneFails \/ GitStrip \/ GitMkdir \/ GitCopy \/ GitConfig
    \/ GitStatementThrows \/ GitCleanup \/ GitPrompts \/ GitMetadata \/ GitReturn
    \/ CustomCheck \/ CustomMkdir \/ CustomCopy \/ CustomPrompts \/ CustomMetadata
    \/ CustomConfig \/ CustomReturn
    \/ BuiltInCheck \/ BuiltInCopy \/ BuiltInPrompts \/ BuiltInMetadata
    \/ CustomizeMetadata \/ CustomizePrompts \/ CustomizeAsk \/ CustomizeManifest
    \/ BuiltInConfig \/ BuiltInReturn
    \/ SkipInstall \/ Install \/ InstallFails \/ Report

Spec == Init /\ [][Next]_vars

(***************************************************************************)
(* SpecPure: inputs of the pure functions.                                 *)
(***************************************************************************)
RefSegments == {"github.com", "templates/", "basic-stdio", "basic-http", "my", "/"}
TemplateRefs == Concats(RefSegments, MaxSegs)

ClaudeEntry == JObj([configPath |-> JStr("$HOME/.claude.json"), snippet |-> JStr("{}")])

ProbeInstructions ==
    { JNull,
      JStr("http"),
      JObj(NoFields),
      JObj([Claude |-> ClaudeEntry]),
      JObj([transportType |-> JStr("http")]),
      JObj([transportType |-> JStr("stdio"), Claude |-> ClaudeEntry]),
      JObj([transportType |-> JStr("sse")]),
      JObj([transportType |-> JStr("")]),
      JObj([transportType |-> JNum("0")]),
      JObj([transportType |-> JNum("42")]),
      JObj([transportType |-> JBool("false")]),
      JObj([transportType |-> JNull]) }

ProbeTemplateNames ==
    {"basic-http", "basic-stdio", "my-http-server", "mcp-template", "", "HTTP", "htt-p"}

\* fragments of README text: a title, a sub-heading, a line of prose, an empty
\* line, prose with "# " inside it, a "key": "value" pair, a heading with no
\* line end after it, a heading ended by CR LF
ReadmeFragments ==
    {"# T\n", "## S\n", "p\n", "\n", "c# d\n", "\"k\": \"v\"\n", "# E", "# W\r\n"}
ProbeReadmes == Concats(ReadmeFragments, MaxParts)

ProbeIdentities ==
    { [projectName |-> "my-cool-server", description |-> "X"],
      [projectName |-> "x", description |-> "costs $$5 & more"] }

\* no invocation runs under SpecPure
RunIdle ==
    /\ pc = "idle"
    /\ args = [projectName |-> "", template |-> "", install |-> FALSE, customize |-> FALSE]
    /\ env = [tpl |-> NoDir, promptsExist |-> FALSE]
    /\ identity = [description |-> "", authorName |-> ""]
    /\ choices = [useEslint |-> FALSE, usePrettier |-> FALSE]
    /\ dest = NoDir
    /\ tempDir = NoDir
    /\ configInstructions = JNull
    /\ templateResult = NoResult
    /\ rendered = NothingRendered
    /\ exit = Running

PureInit ==
    /\ RunIdle
    /\ \/ \E r \in TemplateRefs :
          probe = [op |-> "classify", done |-> FALSE, ref |-> r, kind |-> "none"]
       \/ \E ci \in ProbeInstructions, n \in ProbeTemplateNames :
             probe = [op |-> "transport", done |-> FALSE, instructions |-> ci,
                      templateName |-> n, out |-> JUndefined]
       \/ \E r \in ProbeReadmes, id \in ProbeIdentities :
             probe = [op |-> "readme", done |-> FALSE, readme |-> r,
                      projectName |-> id.projectName, description |-> id.description,
                      afterHeading |-> "", afterDescription |-> "", out |-> ""]
       \/ \E m \in ManifestChoices, r \in ReadmeChoices,
             c \in {<<>>, <<MalformedFile>>,
                    <<JsonFile(JObj([extends |-> JArr(<<JStr("airbnb")>>)]))>>},
             e \in BOOLEAN, f \in BOOLEAN :
             probe = [op |-> "customize", done |-> FALSE, applied |-> 0,
                      dir |-> [exists |-> TRUE, path |-> Cwd \o "/my-cool-server",
                               files |-> Merge(Merge(Merge(SourceFiles,
                                                  Optional("package.json", m)),
                                                  Optional("README.md", r)),
                                               Optional(".eslintrc.json", c))],
                      useEslint |-> e, usePrettier |-> f,
                      once |-> [threw |-> FALSE, dir |-> NoDir],
                      twice |-> [threw |-> FALSE, dir |-> NoDir]]
       \/ \E doc \in {JObj([Cursor |-> JObj([snippet |->
                                JStr("run ${projectName} in ${projectDir} ${other}")])]),
                        JObj([k \in {"transportType", "Claude Desktop"} |->
                                IF k = "transportType" THEN JStr("http")
                                ELSE JObj([configPath |-> JStr("${projectDir}/cfg.json"),
                                           snippet |-> JStr("{\n \"${projectName}\": 1}")])])},
             name \in {"my-cool-server", "a${projectDir}b", "my\"srv", "cost$&more",
                       "back\\slash"},
             root \in {Cwd \o "/", "C:\\work\\"} :
             probe = [op |-> "render", done |-> FALSE, doc |-> doc,
                      projectName |-> name, projectDir |-> root \o name,
                      threw |-> FALSE, out |-> JNull]

ApplyClassify ==
    /\ UNCHANGED runVars
    /\ probe.op = "classify" /\ ~probe.done
    /\ probe' = [probe EXCEPT !.done = TRUE, !.kind = Classify(probe.ref)]

ApplyTransport ==
    /\ UNCHANGED runVars
    /\ probe.op = "transport" /\ ~probe.done
    /\ probe' = [probe EXCEPT !.done = TRUE,
                    !.out = determineTransportType(probe.instructions, probe.templateName)]

ApplyRewriteReadme ==
    /\ UNCHANGED runVars
    /\ probe.op = "readme" /\ ~probe.done
    /\ LET h == replaceHeading(probe.readme, probe.projectName)
           d == replaceDescription(h, probe.description)
       IN  probe' = [probe EXCEPT !.done = TRUE, !.afterHeading = h,
                        !.afterDescription = d,
                        !.out = rewriteReadme(probe.readme, probe.projectName,
                                              probe.description)]

\* customizeTemplate run on a project directory, and then once more on what the
\* first run left; a run that throws ends the probe
ApplyCustomizeTwice ==
    /\ UNCHANGED runVars
    /\ probe.op = "customize" /\ ~probe.done
    /\ probe' = Bind(customizeTemplate(IF probe.applied = 0 THEN probe.dir
                                       ELSE probe.once.dir,
                                       "my-cool-server",
                                       [description |-> "X", authorName |-> "A"], FALSE,
                                       probe.useEslint, probe.usePrettier),
                     LAMBDA r :
                         IF probe.applied = 0
                         THEN [probe EXCEPT !.applied = 1, !.done = r.threw,
                                            !.once = r, !.twice = r]
                         ELSE [probe EXCEPT !.applied = 2, !.done = TRUE, !.twice = r])

\* the placeholders of a control document replaced, as printConfigInstructions does
ApplyProcessInstructions ==
    /\ UNCHANGED runVars
    /\ probe.op = "render" /\ ~probe.done
    /\ LET r == processInstructions(probe.doc, probe.projectName, probe.projectDir)
       IN  probe' = [probe EXCEPT !.done = TRUE, !.threw = r.threw, !.out = r.value]

PureNext ==
    \/ ApplyClassify
    \/ ApplyTransport
    \/ ApplyRewriteReadme
    \/ ApplyCustomizeTwice
    \/ ApplyProcessInstructions

SpecPure == PureInit /\ [][PureNext]_vars

(***************************************************************************)
(* SpecConcurrent: two invocations of handleGitHubTemplate in one working  *)
(* directory, reduced to what they do with the temporary directory.        *)
(* probe.runs[r] is the position of invocation r, the clock reading it     *)
(* took and the path it computed; probe.disk maps the temporary            *)
(* directories that exist to the invocation whose clone filled them.       *)
(***************************************************************************)
ConcInit ==
    /\ RunIdle
    /\ probe = [op |-> "concurrent", done |-> FALSE,
                runs |-> [r \in {1, 2} |-> [pc |-> "name", now |-> "", tempDir |-> "",
                                            copiedFrom |-> 0]],
                disk |-> [p \in {} |-> 0]]

\* const tempDir = path.join(process.cwd(), `.temp-${Date.now()}`)
ConcName(r) ==
    /\ probe.runs[r].pc = "name"
    /\ \E now \in {"1717171717171", "1717171717172", "1717171717173"} :
          probe' = [probe EXCEPT !.runs[r] =
                       [pc |-> "clone", now |-> now,
                        tempDir |-> Cwd \o "/.temp-" \o now, copiedFrom |-> 0]]
    /\ UNCHANGED runVars

\* execSync(`git clone ${repoUrl} ${tempDir}`): git refuses a destination that
\* exists and is not empty, and leaves it as it is
ConcClone(r) ==
    /\ probe.runs[r].pc = "clone"
    /\ LET path == probe.runs[r].tempDir
       IN  IF path \in DOMAIN probe.disk
           THEN probe' = [probe EXCEPT !.runs[r].pc = "failed"]
           ELSE probe' = [probe EXCEPT !.runs[r].pc = "copy",
                                       !.disk = Merge(probe.disk, [p \in {path} |-> r])]
    /\ UNCHANGED runVars

\* fs.removeSync of .git, fs.mkdirSync and fs.copySync(tempDir, projectDir)
ConcCopy(r) ==
    /\ probe.runs[r].pc = "copy"
    /\ LET path == probe.runs[r].tempDir
       IN  IF path \in DOMAIN probe.disk
           THEN probe' = [probe EXCEPT !.runs[r].pc = "cleanup",
                                       !.runs[r].copiedFrom = probe.disk[path]]
           ELSE probe' = [probe EXCEPT !.runs[r].pc = "failed"]
    /\ UNCHANGED runVars

\* fs.removeSync(tempDir)
ConcCleanup(r) ==
    /\ probe.runs[r].pc = "cleanup"
    /\ probe' = [probe EXCEPT
                    !.runs[r].pc = "done",
                    !.disk = [p \in (DOMAIN probe.disk) \ {probe.runs[r].tempDir}
                                 |-> probe.disk[p]]]
    /\ UNCHANGED runVars

ConcNext ==
    \E r \in {1, 2} : ConcName(r) \/ ConcClone(r) \/ ConcCopy(r) \/ ConcCleanup(r)

SpecConcurrent == ConcInit /\ [][ConcNext]_vars

(***************************************************************************)
(* SpecHttp: the server a project made from templates/basic-http runs      *)
(* (templates/basic-http/src/index.ts), reduced to its session map.        *)
(* probe.created is the sequence of the transports made so far, each with  *)
(* its sessionId ("" until the session is initialized), whether its first  *)
(* request is still to be handled, and whether it was closed;              *)
(* probe.transports is the map of that name, from session ids to indices   *)
(* into probe.created; probe.last is what the last event was and did.  A   *)
(* header of "" is a request without the mcp-session-id header.            *)
(***************************************************************************)
MaxTransports == 3  \* transports created in one run of the server

\* what randomUUID() gives the transport made t-th: never the same id twice
SessionIds == [t \in 1..MaxTransports |-> "uuid-" \o Digits[t + 1]]

\* the properties an object literal inherits: transports[key] is truthy for them
ObjectPrototypeKeys == {"constructor", "__proto__"}

\* the mcp-session-id headers the clients send
Headers == {"", "uuid-1", "uuid-2", "uuid-7", "constructor"}

\* transports[sessionId] is truthy
transportsHas(sessionId) ==
    sessionId \in (DOMAIN probe.transports) \cup ObjectPrototypeKeys

\* the outcomes of calling handleRequest of a value that has no such method: the
\* async handler rejects, and the response is an error or is never sent
TypeErrorOutcomes == {"500", "none"}

HttpInit ==
    /\ RunIdle
    /\ probe = [op |-> "http", done |-> FALSE,
                created |-> <<>>,
                transports |-> [k \in {} |-> 0],
                last |-> [event |-> "listen", header |-> "", status |-> "", by |-> 0]]

\* app.post("/mcp"), up to the await of mcpServer.server.connect
Post(header) ==
    /\ probe.op = "http"
    /\ IF header # "" /\ transportsHas(header)
       THEN IF header \in DOMAIN probe.transports
            THEN probe' = [probe EXCEPT !.last =
                              [event |-> "POST", header |-> header, status |-> "handled",
                               by |-> probe.transports[header]]]
            ELSE \E outcome \in TypeErrorOutcomes :
                    probe' = [probe EXCEPT !.last =
                                 [event |-> "POST", header |-> header,
                                  status |-> outcome, by |-> 0]]
       ELSE IF header = ""
       THEN /\ Len(probe.created) < MaxTransports
            /\ probe' = [probe EXCEPT
                            !.created = Append(@, [sessionId |-> "", pending |-> TRUE,
                                                   closed |-> FALSE]),
                            !.last = [event |-> "POST", header |-> header,
                                      status |-> "connecting",
                                      by |-> Len(probe.created) + 1]]
       ELSE probe' = [probe EXCEPT !.last =
                         [event |-> "POST", header |-> header, status |-> "400", by |-> 0]]
    /\ UNCHANGED runVars

\* app.post("/mcp") after the await, for a new transport: handleRequest, which
\* on an initialize request generates the session id and calls
\* onsessioninitialized, and on any other request answers without a session
PostHandle(t) ==
    /\ probe.op = "http"
    /\ t \in 1..Len(probe.created) /\ probe.created[t].pending
    /\ \E initialize \in BOOLEAN :
          IF initialize
          THEN probe' = [probe EXCEPT
                            !.created[t] = [sessionId |-> SessionIds[t], pending |-> FALSE,
                                            closed |-> FALSE],
                            !.transports = Merge(@, [k \in {SessionIds[t]} |-> t]),
                            !.last = [event |-> "initialize", header |-> "",
                                      status |-> "handled", by |-> t]]
          ELSE probe' = [probe EXCEPT
                            !.created[t].pending = FALSE,
                            !.last = [event |-> "initialize", header |-> "",
                                      status |-> "400", by |-> t]]
    /\ UNCHANGED runVars

\* handleSessionRequest, for GET and DELETE
handleSessionRequest(method, header) ==
    /\ probe.op = "http"
    /\ IF header = "" \/ ~transportsHas(header)
       THEN probe' = [probe EXCEPT !.last =
                         [event |-> method, header |-> header, status |-> "400", by |-> 0]]
       ELSE IF header \in DOMAIN probe.transports
       THEN probe' = [probe EXCEPT !.last =
                         [event |-> method, header |-> header, status |-> "handled",
                          by |-> probe.transports[header]]]
       ELSE \E outcome \in TypeErrorOutcomes :
               probe' = [probe EXCEPT !.last =
                            [event |-> method, header |-> header, status |-> outcome,
                             by |-> 0]]
    /\ UNCHANGED runVars

\* transport.onclose: if (transport.sessionId) delete transports[transport.sessionId]
onclose(t) ==
    /\ probe.op = "http"
    /\ t \in 1..Len(probe.created)
    /\ ~probe.created[t].pending /\ ~probe.created[t].closed
    /\ probe' = [probe EXCEPT
                    !.created[t].closed = TRUE,
                    !.transports = [k \in (DOMAIN @) \ {probe.created[t].sessionId} |-> @[k]],
                    !.last = [event |-> "close", header |-> "", status |-> "", by |-> t]]
    /\ UNCHANGED runVars

HttpNext ==
    \/ \E header \in Headers : Post(header)
    \/ \E t \in 1..MaxTransports : PostHandle(t)
    \/ \E method \in {"GET", "DELETE"}, header \in Headers :
          handleSessionRequest(method, header)
    \/ \E t \in 1..MaxTransports : onclose(t)

SpecHttp == HttpInit /\ [][HttpNext]_vars

(***************************************************************************)
(* Properties.                                                             *)
(***************************************************************************)
\* the kind the classification rule gives a reference, rule by rule
ClaimedKind(ref) ==
    IF Includes(ref, "github.com") THEN "RemoteRepository"
    ELSE IF ref \in {"basic-stdio", "basic-http"} \/ StartsWith(ref, "templates/")
         THEN "BuiltIn"
         ELSE "LocalPath"

\* C1: the classification of a reference is RemoteRepository if the reference
\* contains "github.com", whatever else it contains or starts with; otherwise
\* BuiltIn if it is "basic-stdio" or "basic-http" or starts with "templates/";
\* otherwise LocalPath.
C1_ClassificationByRule ==
    probe.op = "classify" /\ probe.done =>
        /\ probe.kind \in {"RemoteRepository", "BuiltIn", "LocalPath"}
        /\ probe.kind = ClaimedKind(probe.ref)

\* a reference that starts with "templates/", contains a built-in name and
\* contains "github.com" has been classified as a remote repository
C1_Witness ==
    /\ probe.op = "classify" /\ probe.done
    /\ StartsWith(probe.ref, "templates/")
    /\ Includes(probe.ref, "basic-http")
    /\ Includes(probe.ref, "github.com")
    /\ probe.kind = "RemoteRepository"

\* the instructions are an object with a transportType that is not null
CarriesTransportType(instructions) ==
    /\ instructions.type = "object"
    /\ "transportType" \in DOMAIN instructions.fields
    /\ instructions.fields["transportType"].type # "null"

\* the transport kind the template name stands for
NamedTransport(templateName) ==
    IF Includes(templateName, "http") THEN JStr("http") ELSE JStr("stdio")

\* C2, as claimed: determineTransportType returns instructions.transportType
\* whenever the instructions carry one, and the kind the template name stands
\* for when they are null or carry none.
C2_AnyCarriedTransportTypeWins ==
    probe.op = "transport" /\ probe.done =>
        probe.out = IF CarriesTransportType(probe.instructions)
                    THEN probe.instructions.fields["transportType"]
                    ELSE NamedTransport(probe.templateName)

\* C2, amended: determineTransportType returns instructions.transportType
\* whenever the instructions carry one that is truthy (a non-empty string, a
\* number other than 0, true, an object), whatever the template name; when the
\* instructions are null, carry no transportType or carry a falsy one ("", 0,
\* false, null), it returns http if the name contains "http", stdio otherwise.
C2_TruthyTransportTypeWins ==
    probe.op = "transport" /\ probe.done =>
        probe.out = IF /\ CarriesTransportType(probe.instructions)
                       /\ Truthy(probe.instructions.fields["transportType"])
                    THEN probe.instructions.fields["transportType"]
                    ELSE NamedTransport(probe.templateName)

\* instructions that say http have won over a template name that says stdio
C2_Witness ==
    /\ probe.op = "transport" /\ probe.done
    /\ CarriesTransportType(probe.instructions)
    /\ probe.instructions.fields["transportType"] = JStr("http")
    /\ probe.templateName = "basic-stdio"
    /\ probe.out = JStr("http")

\* the copy into the project directory has been made (or skipped by its filter)
Materialized ==
    \/ pc \in {"gh_config", "gh_cleanup", "gh_prompts", "gh_metadata", "gh_return",
               "custom_prompts", "custom_metadata", "custom_config", "custom_return",
               "builtin_prompts", "builtin_metadata", "cust_metadata", "cust_prompts",
               "cust_ask", "cust_manifest", "builtin_config", "builtin_return",
               "install", "report"}
    \/ pc = "exit" /\ exit.why \in {"metadata", "customize", "control file", "install",
                                    "report", "success"}

\* C3: for every kind of source, once a template whose root holds
\* config-instructions.json has been copied, the project directory does not
\* hold that file.
C3_ControlFileNotInProject ==
    Materialized /\ ControlFile \in DOMAIN env.tpl.files =>
        ControlFile \notin DOMAIN dest.files

\* a run over a remote template with a control file has ended in success with
\* the template's other files in the project directory
C3_Witness ==
    /\ pc = "exit" /\ exit.why = "success"
    /\ Classify(args.template) = "RemoteRepository"
    /\ ControlFile \in DOMAIN env.tpl.files
    /\ "src/index.ts" \in DOMAIN dest.files
    /\ ControlFile \notin DOMAIN dest.files

\* C4, as claimed: every file of the template whose name is not exactly
\* config-instructions.json is in the project directory, at the same relative
\* path, once the copy has been made.
C4_EveryOtherFileCopied ==
    Materialized =>
        \A p \in DOMAIN env.tpl.files :
            basename(p) # ControlFile => p \in DOMAIN dest.files

\* the metadata rewrite is the next statement
AtMetadata == pc \in {"gh_metadata", "custom_metadata", "builtin_metadata", "cust_metadata"}

\* the directory holds a manifest: a package.json that is a JSON object
HasManifest(dir) ==
    /\ FileExists(dir, "package.json")
    /\ dir.files["package.json"].kind = "json"
    /\ dir.files["package.json"].json.type = "object"

IdentityKeys == {"name", "description", "author"}

\* C5: when the project directory holds a manifest (a package.json that is a
\* JSON object), the metadata rewrite sets its name, description and author to
\* the project's name and the two prompt answers, whatever they were, and every
\* other key has the same value after the rewrite as before; no key is lost.
C5_ManifestRewriteFrame ==
    [][AtMetadata /\ HasManifest(dest) /\ pc' # pc =>
          /\ HasManifest(dest')
          /\ LET before == dest.files["package.json"].json.fields
                 after == dest'.files["package.json"].json.fields
             IN  /\ after["name"] = JStr(args.projectName)
                 /\ after["description"] = JStr(identity.description)
                 /\ after["author"] = JStr(identity.authorName)
                 /\ DOMAIN after = (DOMAIN before) \cup IdentityKeys
                 /\ \A k \in (DOMAIN before) \ IdentityKeys : after[k] = before[k]]_vars

\* the rewrite has run over a template's manifest that had another name: the
\* name is the project's, the version and the scripts are the template's
C5_Witness ==
    /\ pc = "builtin_config"
    /\ FileExists(env.tpl, "package.json")
    /\ env.tpl.files["package.json"] = JsonFile(ManifestFull)
    /\ HasManifest(dest)
    /\ dest.files["package.json"].json.fields["name"] = JStr(args.projectName)
    /\ dest.files["package.json"].json.fields["version"] = JStr("1.0.0")
    /\ ~args.customize

\* the lines of a text: what stands between its "\n"
Lines(text) == Split(text, "\n")

\* the number of # a line starts with
RECURSIVE HeadingLevel(_)
HeadingLevel(line) ==
    IF At(line, 1) = "#" THEN 1 + HeadingLevel(Slice(line, 2, Len(line))) ELSE 0

\* the line begins with a heading marker: one or more #, then a space
IsHeadingLine(line) ==
    HeadingLevel(line) >= 1 /\ At(line, HeadingLevel(line) + 1) = " "

\* the index of the first line for which Test holds, or 0
FirstLine(lines, Test(_)) ==
    LET hits == {i \in 1..Len(lines) : Test(lines[i])}
    IN  IF hits = {} THEN 0 ELSE Min(hits)

\* the heading the claim puts in place of a heading line: the project name,
\* its segments capitalized, at the first level or at the level the line had
\* (and with the carriage return the line ended with, or without it)
ClaimedHeadings(line, projectName) ==
    LET title == capitalizedName(projectName)
    IN  {marker \o " " \o title \o cr :
            marker \in {"#", Slice(line, 1, HeadingLevel(line))}, cr \in {"", "\r"}}

\* C6, as claimed: the heading rule replaces the first line that begins with a
\* heading marker by a heading whose text is the capitalized project name, and
\* changes no other heading line.
C6_FirstHeadingLineReplaced ==
    probe.op = "readme" /\ probe.done =>
        LET before == Lines(probe.readme)
            after == Lines(probe.afterHeading)
            h == FirstLine(before, IsHeadingLine)
        IN  h # 0 =>
              /\ Len(after) = Len(before)
              /\ after[h] \in ClaimedHeadings(before[h], probe.projectName)
              /\ \A i \in 1..Len(before) :
                    i # h /\ IsHeadingLine(before[i]) => after[i] = before[i]

IsNonEmptyLine(line) == line # ""

\* C7, as claimed: for a README whose first line is a heading and whose next
\* non-empty line is prose, that prose line is the description after the
\* description rule.
C7_ProseAfterHeadingReplaced ==
    probe.op = "readme" /\ probe.done =>
        LET before == Lines(probe.afterHeading)
            after == Lines(probe.afterDescription)
            p == FirstLine(Tail(before), IsNonEmptyLine) + 1
        IN  /\ IsHeadingLine(before[1])
            /\ p > 1
            /\ ~IsHeadingLine(before[p])
            /\ p < Len(before)
            => /\ Len(after) = Len(before)
               /\ after[p] = probe.description

\* the number of places at which t stands in s
Occurrences(s, t) ==
    Cardinality({i \in 1..(Len(s) - Len(t) + 1) : Slice(s, i, i + Len(t) - 1) = t})

\* the "key": "value" pair of the README fragments
PairText == "\"k\": \"v\""

\* the lines at which two texts of as many lines differ
DiffLines(a, b) == {i \in 1..Len(Lines(a)) : Lines(a)[i] # Lines(b)[i]}

\* C8, as claimed: the pair rule changes at most its first match: the
\* server-configuration stanza stands in the README at most once, and every
\* pair after the first is left as it was.
C8_OnlyFirstPairReplaced ==
    probe.op = "readme" /\ probe.done =>
        /\ Occurrences(probe.out, serverStanza(probe.projectName)) <= 1
        /\ Occurrences(probe.afterDescription, PairText) >= 1 =>
              Occurrences(probe.out, PairText)
                  = Occurrences(probe.afterDescription, PairText) - 1

\* C8, amended: the heading rule and the description rule change at most their
\* first match (at most one line each); the pair rule replaces every inline
\* "key": "value" pair by the server-configuration stanza, leaving none.
C8_EveryPairReplaced ==
    probe.op = "readme" /\ probe.done =>
        /\ Len(Lines(probe.afterHeading)) = Len(Lines(probe.readme))
        /\ Cardinality(DiffLines(probe.readme, probe.afterHeading)) <= 1
        /\ Len(Lines(probe.afterDescription)) = Len(Lines(probe.afterHeading))
        /\ Cardinality(DiffLines(probe.afterHeading, probe.afterDescription)) <= 1
        /\ Occurrences(probe.out, PairText) = 0
        /\ Occurrences(probe.out, serverStanza(probe.projectName))
              = Occurrences(probe.afterDescription, PairText)

\* a README with two pairs has been rewritten: the stanza stands in it twice
C8_Witness ==
    /\ probe.op = "readme" /\ probe.done
    /\ Occurrences(probe.afterDescription, PairText) = 2
    /\ Occurrences(probe.out, serverStanza(probe.projectName)) = 2

\* package.json is missing, or is a JSON object
ManifestMissingOrSound(dir) == ~FileExists(dir, "package.json") \/ HasManifest(dir)

\* none of the three patterns matches the text
NoPatternMatches(text) ==
    /\ \A i \in 1..Len(text) : HeadingMatchEnd(text, i) = 0 /\ PairMatchEnd(text, i) = 0
    /\ DescriptionMatchEnd(text) = 0

\* C9: when the project directory has no manifest, no README, or a README that
\* none of the patterns matches, the metadata rewrite raises no error and
\* creates no file: the missing file stays missing, a README nothing matches is
\* left as it is, the other file is still rewritten (the manifest gets the
\* project's name, the README its heading), and the run goes on to the next
\* statement.  (A package.json that is no JSON object is no manifest.)
C9_MissingFilesSkipped ==
    [][/\ AtMetadata /\ pc' # pc /\ ManifestMissingOrSound(dest)
       /\ \/ ~FileExists(dest, "package.json")
          \/ ~FileExists(dest, "README.md")
          \/ NoPatternMatches(dest.files["README.md"].text)
       => /\ pc' # "exit" /\ exit' = exit
          /\ DOMAIN dest'.files = DOMAIN dest.files
          /\ dest'.exists = dest.exists
          /\ \A p \in (DOMAIN dest.files) \ {"package.json", "README.md"} :
                dest'.files[p] = dest.files[p]
          /\ FileExists(dest, "README.md")
                /\ NoPatternMatches(dest.files["README.md"].text)
                => dest'.files["README.md"] = dest.files["README.md"]
          /\ FileExists(dest, "package.json")
                => dest'.files["package.json"].json.fields["name"]
                       = JStr(args.projectName)
          /\ FileExists(dest, "README.md")
                /\ StartsWith(dest.files["README.md"].text, "# Minimal")
                => StartsWith(dest'.files["README.md"].text,
                              "# " \o capitalizedName(args.projectName) \o "\n")]_vars

\* a run over a template with a README and no manifest has ended in success:
\* there is still no manifest, and the README has the project's heading
C9_Witness ==
    /\ pc = "exit" /\ exit.why = "success"
    /\ "package.json" \notin DOMAIN env.tpl.files
    /\ FileExists(dest, "README.md")
    /\ ~FileExists(dest, "package.json")
    /\ StartsWith(dest.files["README.md"].text, "# MyCoolServer\n")

\* the template's root holds a control file that JSON.parse throws on
ControlMalformed ==
    /\ ControlFile \in DOMAIN env.tpl.files
    /\ env.tpl.files[ControlFile].kind = "malformed"

AtConfig == pc \in {"gh_config", "custom_config", "builtin_config"}

\* C10: for every kind of source, a control file that cannot be parsed leaves
\* configInstructions null without raising: the statement changes no file of
\* the project directory and the run goes on; no run ends because of it; and a
\* run that ends in success has the transport kind its template name stands
\* for, null instructions in its result, and the built-in text for that kind
\* rendered.
C10_ParseFailureIsNotFatal ==
    [][ControlMalformed =>
          /\ AtConfig /\ pc' # pc =>
                /\ configInstructions' = JNull
                /\ pc' # "exit" /\ exit' = exit
                /\ dest' = dest
          /\ exit'.why # "control file"
          /\ pc' = "exit" /\ exit'.why = "success" =>
                /\ templateResult'.configInstructions = JNull
                /\ templateResult'.transportType
                      = NamedTransport(templateResult'.templateName)
                /\ rendered'.mode =
                      IF Includes(templateResult'.templateName, "http")
                      THEN "default-http" ELSE "default-stdio"]_vars

\* a run over a local template named for http, with a control file that cannot
\* be parsed, has ended in success with the built-in http text rendered
C10_Witness ==
    /\ pc = "exit" /\ exit.why = "success"
    /\ ControlMalformed
    /\ Classify(args.template) = "LocalPath"
    /\ templateResult.templateName = "my-http-tpl"
    /\ templateResult.transportType = JStr("http")
    /\ rendered.mode = "default-http"
    /\ "src/index.ts" \in DOMAIN dest.files

\* C11: when the remote clone fails, the run ends there with exit code 1: the
\* project directory is as it was, it does not exist and holds no file, no
\* result was returned, nothing was reported, and no statement runs afterwards
\* (no metadata rewrite, no install, no success report).
C11_CloneFailureLeavesProjectDir ==
    [][/\ exit.why = "clone" => FALSE
       /\ (pc = "gh_clone" /\ pc' # "gh_strip") \/ exit'.why = "clone" =>
             /\ pc' = "exit" /\ exit' = [code |-> 1, why |-> "clone"]
             /\ dest' = dest
             /\ ~dest'.exists /\ DOMAIN dest'.files = {}
             /\ templateResult' = NoResult
             /\ rendered' = NothingRendered]_vars

\* a run over a remote template, with the install asked for, has ended in the
\* failure of the clone with no project directory
C11_Witness ==
    /\ pc = "exit" /\ exit = [code |-> 1, why |-> "clone"]
    /\ Classify(args.template) = "RemoteRepository"
    /\ ~dest.exists
    /\ args.install

\* C12, as claimed: when the clone has failed, the temporary directory does not
\* exist at the end of the invocation, whether or not the clone had created it.
C12_NoTempDirAfterFailedClone ==
    pc = "exit" /\ exit.why = "clone" => ~tempDir.exists

\* C13, as claimed: once the clone has succeeded, the temporary directory does
\* not exist when the remote handler has exited, whether it returned or threw.
C13_SnapshotGoneAfterHandler ==
    /\ Classify(args.template) = "RemoteRepository"
    /\ \/ pc \in {"install", "report"}
       \/ pc = "exit" /\ exit.why \notin {"cancelled", "clone"}
    => ~tempDir.exists

\* C15: when the directory of a built-in template or of a local template does
\* not exist, the check ends the run with exit code 1 (TemplateNotFound): the
\* project directory is as it was and does not exist, no result was returned
\* and nothing was reported, and no statement runs afterwards; and a run ends
\* this way only at that check.
C15_TemplateNotFoundIsFatal ==
    [][/\ exit.why = "TemplateNotFound" => FALSE
       /\ (pc \in {"custom_check", "builtin_check"} /\ ~env.tpl.exists)
             \/ exit'.why = "TemplateNotFound" =>
             /\ pc \in {"custom_check", "builtin_check"} /\ ~env.tpl.exists
             /\ pc' = "exit" /\ exit' = [code |-> 1, why |-> "TemplateNotFound"]
             /\ dest' = dest
             /\ ~dest'.exists /\ DOMAIN dest'.files = {}
             /\ templateResult' = NoResult
             /\ rendered' = NothingRendered]_vars

\* a run over a local template path that does not exist has ended in
\* TemplateNotFound with no project directory
C15_Witness ==
    /\ pc = "exit" /\ exit = [code |-> 1, why |-> "TemplateNotFound"]
    /\ Classify(args.template) = "LocalPath"
    /\ ~env.tpl.exists
    /\ ~dest.exists

\* C14, as claimed: two invocations that fetch a remote template in the same
\* working directory never have the same temporary directory path, even when
\* both read the same clock value; so no invocation finds its path taken by the
\* other's clone.
C14_TempDirsNeverCollide ==
    probe.op = "concurrent" =>
        /\ probe.runs[1].pc # "name" /\ probe.runs[2].pc # "name" =>
              probe.runs[1].tempDir # probe.runs[2].tempDir
        /\ \A r \in {1, 2} : probe.runs[r].pc # "failed"

\* the elements of the extends list of the directory's .eslintrc.json
ExtendsOf(dir) == Prop(dir.files[".eslintrc.json"].json, "extends")

\* C16: customizeTemplate applied a second time, with the same choices, to what
\* its first application left does not throw and leaves the same manifest and
\* the same .eslintrc.json (with the same extension list) as the first; for
\* both choices, for each single choice and for none.
C16_CustomizeTwiceIsOnce ==
    probe.op = "customize" /\ probe.done /\ ~probe.once.threw =>
        /\ ~probe.twice.threw
        /\ \A f \in {"package.json", ".eslintrc.json", ".prettierrc"} :
              /\ FileExists(probe.twice.dir, f) <=> FileExists(probe.once.dir, f)
              /\ FileExists(probe.once.dir, f) =>
                    probe.twice.dir.files[f] = probe.once.dir.files[f]

\* lint and format were both chosen for a directory with a manifest: after one
\* application and after two the extension list has the same three entries
C16_Witness ==
    /\ probe.op = "customize" /\ probe.done
    /\ probe.useEslint /\ probe.usePrettier
    /\ FileExists(probe.dir, "package.json")
    /\ ~probe.once.threw /\ ~probe.twice.threw
    /\ Cardinality(DOMAIN ExtendsOf(probe.once.dir).fields) = 3
    /\ ExtendsOf(probe.twice.dir) = ExtendsOf(probe.once.dir)
    /\ "lint" \in DOMAIN Prop(probe.twice.dir.files["package.json"].json, "scripts").fields

\* the manifest step of customizeTemplate is taken, over a manifest
CustomizeStep == pc = "cust_manifest" /\ pc' # pc /\ HasManifest(dest)

\* the entries of the manifest's object under key, none when it has no such key
Entries(dir, key) == Spread(Prop(dir.files["package.json"].json, key))

\* C17, as claimed: a script named lint, lint:fix or format that the template's
\* manifest defines has the same value after the customization as before, when
\* the choice that adds a script of that name is enabled.
C17_TemplateScriptWins ==
    [][CustomizeStep =>
          \A k \in DOMAIN Entries(dest, "scripts") :
              \/ k \in {"lint", "lint:fix"} /\ choices.useEslint
              \/ k = "format" /\ choices.usePrettier
              => Entries(dest', "scripts")[k] = Entries(dest, "scripts")[k]]_vars

\* C18: for every combination of the two choices, the manifest step of the
\* customization leaves a manifest in which every key of devDependencies and of
\* scripts that was there is still there, and every other top-level key is there
\* with the value it had; it removes no file of the project directory.
C18_CustomizationOnlyAdds ==
    [][CustomizeStep =>
          /\ pc' # "exit"
          /\ HasManifest(dest')
          /\ \A key \in {"devDependencies", "scripts"} :
                DOMAIN Entries(dest, key) \subseteq DOMAIN Entries(dest', key)
          /\ \A k \in (DOMAIN dest.files["package.json"].json.fields)
                          \ {"devDependencies", "scripts"} :
                /\ k \in DOMAIN dest'.files["package.json"].json.fields
                /\ dest'.files["package.json"].json.fields[k]
                      = dest.files["package.json"].json.fields[k]
          /\ DOMAIN dest.files \subseteq DOMAIN dest'.files]_vars

\* both choices were enabled over the template manifest with a build script and
\* a typescript dependency: both are still there, next to what was added
C18_Witness ==
    /\ pc = "builtin_config" /\ args.customize
    /\ choices.useEslint /\ choices.usePrettier
    /\ FileExists(env.tpl, "package.json")
    /\ env.tpl.files["package.json"] = JsonFile(ManifestFull)
    /\ HasManifest(dest)
    /\ {"build", "lint", "lint:fix", "format"} \subseteq DOMAIN Entries(dest, "scripts")
    /\ {"typescript", "eslint", "prettier"} \subseteq DOMAIN Entries(dest, "devDependencies")
    /\ dest.files["package.json"].json.fields["version"] = JStr("1.0.0")

\* the directory the copy read: the clone for a remote template, the template
\* directory otherwise
Snapshot ==
    IF Classify(args.template) = "RemoteRepository"
    THEN [exists |-> TRUE, path |-> tempDir.path, files |-> env.tpl.files]
    ELSE env.tpl

\* C19: once the copy into the project directory has been made, every file it
\* copied is in the project directory, and no later step (prompts copy, metadata
\* rewrite, control-file read, customization, install, report) removes a file
\* from it, whether the step succeeds or ends the run.
C19_CopiedFilesStay ==
    [][/\ Materialized => (DOMAIN dest.files) \subseteq (DOMAIN dest'.files)
       /\ Materialized' => dest'.exists /\ Copied(Snapshot') \subseteq (DOMAIN dest'.files)]_vars

\* a run has been ended by the failure of the install, after the prompts were
\* copied: the template's source file and README are in the project directory
C19_Witness ==
    /\ pc = "exit" /\ exit = [code |-> 1, why |-> "install"]
    /\ env.promptsExist
    /\ {"src/index.ts", "README.md"} \subseteq DOMAIN env.tpl.files
    /\ {"src/index.ts", "README.md", "prompts/guide.md"} \subseteq DOMAIN dest.files

\* the text with every ${projectName} replaced by the name and every
\* ${projectDir} by the directory, as they are written, in one pass
RECURSIVE Substituted(_, _, _)
Substituted(text, name, dir) ==
    LET k == FirstOf(text, 1, {"$"})
    IN  IF k = 0 THEN text
        ELSE IF Slice(text, k, k + 13) = "${projectName}"
        THEN Slice(text, 1, k - 1) \o name
             \o Substituted(Slice(text, k + 14, Len(text)), name, dir)
        ELSE IF Slice(text, k, k + 12) = "${projectDir}"
        THEN Slice(text, 1, k - 1) \o dir
             \o Substituted(Slice(text, k + 13, Len(text)), name, dir)
        ELSE Slice(text, 1, k) \o Substituted(Slice(text, k + 1, Len(text)), name, dir)

\* the document with the placeholders of its strings replaced
RECURSIVE SubstitutedDoc(_, _, _)
SubstitutedDoc(v, name, dir) ==
    IF v.type = "string" THEN JStr(Substituted(v.s, name, dir))
    ELSE IF v.type = "object"
    THEN JObj([k \in DOMAIN v.fields |-> SubstitutedDoc(v.fields[k], name, dir)])
    ELSE v

\* C20, as claimed: for every project name and directory, replacing the
\* placeholders of a control document does not fail and gives the document with
\* every ${projectName} replaced by exactly the name and every ${projectDir} by
\* exactly the directory, every other ${...} left as it is.
C20_PlaceholdersVerbatim ==
    probe.op = "render" /\ probe.done =>
        /\ ~probe.threw
        /\ probe.out = SubstitutedDoc(probe.doc, probe.projectName, probe.projectDir)

(***************************************************************************)
(* The rendered instructions.                                              *)
(***************************************************************************)
\* the template holds a control file that parses to a document
UsableControl ==
    /\ FileExists(env.tpl, ControlFile)
    /\ env.tpl.files[ControlFile].kind = "json"
    /\ env.tpl.files[ControlFile].json.type = "object"

DefaultPlatforms == {"Claude Desktop", "VS Code", "Cursor IDE"}

\* C21: in every successful run one set of instructions is rendered: the
\* template's own platform entries, and not the defaults, when the template
\* holds a usable control file; otherwise the http default if the result's
\* transport kind is http and the stdio default if it is not.  The key
\* transportType is never rendered as a platform.
C21_OneSetOfInstructions ==
    pc = "exit" /\ exit.why = "success" =>
        /\ "transportType" \notin rendered.platforms
        /\ IF UsableControl
           THEN /\ rendered.mode = "custom"
                /\ rendered.platforms =
                      (DOMAIN env.tpl.files[ControlFile].json.fields) \ {"transportType"}
           ELSE /\ rendered.platforms = DefaultPlatforms
                /\ rendered.mode = IF templateResult.transportType = JStr("http")
                                   THEN "default-http" ELSE "default-stdio"

\* a successful run over a template named for http, without a control file, has
\* rendered the http default
C21_Witness ==
    /\ pc = "exit" /\ exit.why = "success"
    /\ ~FileExists(env.tpl, ControlFile)
    /\ args.template = "basic-http"
    /\ rendered = [mode |-> "default-http", platforms |-> DefaultPlatforms]

\* C22, as claimed: whatever the control document and the template name, the
\* transportType of the result is "stdio" or "http".
C22_TransportKindEnumerated ==
    probe.op = "transport" /\ probe.done =>
        probe.out \in {JStr("stdio"), JStr("http")}

(***************************************************************************)
(* Customization and the kinds of template.                                *)
(***************************************************************************)
\* the handler has returned
HandlerReturned ==
    \/ pc \in {"install", "report"}
    \/ pc = "exit" /\ exit.why \in {"install", "report", "success"}

\* the run does not customize: the template is not built-in, or --no-customize
NotCustomized == Classify(args.template) # "BuiltIn" \/ ~args.customize

LintFiles == {".eslintrc.json", ".prettierrc"}

StageOf(p, builtInControl) ==
    CASE p \in {"start", "prompt"} -> 0
      [] p \in {"gh_clone", "gh_strip", "custom_check", "builtin_check"} -> 1
      [] p \in {"gh_mkdir", "gh_copy", "custom_mkdir", "custom_copy", "builtin_copy"} -> 2
      [] p \in {"gh_config", "gh_cleanup", "gh_prompts", "gh_metadata", "custom_prompts",
                "custom_metadata", "custom_config", "builtin_prompts",
                "builtin_metadata", "cust_metadata"} -> 3
      [] p \in {"cust_prompts", "cust_ask", "cust_manifest"} -> 4
      [] p = "builtin_config" -> builtInControl
      [] p \in {"gh_return", "custom_return", "builtin_return"} -> 6
      [] p \in {"install", "report"} -> 7
      [] OTHER -> 8

\* C24, as claimed: no step goes back to an earlier stage, the control-file
\* resolution of every handler being of the stage before customization.
C24_ControlBeforeCustomization ==
    [][StageOf(pc', 3) >= StageOf(pc, 3)]_vars

\* C24, amended: no step goes back to an earlier stage, the built-in handler's
\* control-file resolution being a stage of its own after customization; the
\* control document is set by the control-file statements alone, the choices
\* by the customization prompts alone and the result by the return statements
\* alone; and customization starts from a finished metadata rewrite.
C24_StagesInOrder ==
    [][/\ StageOf(pc', 5) >= StageOf(pc, 5)
       /\ configInstructions' # configInstructions => AtConfig
       /\ choices' # choices => pc = "cust_ask"
       /\ templateResult' # templateResult => StageOf(pc, 5) = 6
       /\ StageOf(pc', 5) = 4 /\ StageOf(pc, 5) # 4 =>
             /\ pc = "cust_metadata"
             /\ HasManifest(dest) =>
                   dest'.files["package.json"] =
                      JsonFile(rewriteManifest(dest.files["package.json"].json,
                                               args.projectName, identity.description,
                                               identity.authorName))]_vars

\* the built-in handler is at its control-file statement after a customization
\* that wrote the lint configuration: the template's control file is there and
\* has not been read yet
C24_Witness ==
    /\ pc = "builtin_config" /\ args.customize
    /\ choices.useEslint /\ FileExists(dest, ".eslintrc.json")
    /\ UsableControl /\ configInstructions = JNull

(***************************************************************************)
(* Lint and format together.                                               *)
(***************************************************************************)
PrettierPlugin == JStr("plugin:prettier/recommended")
CrossPackages == {"eslint-config-prettier", "eslint-plugin-prettier"}

\* C25: customizeTemplate over a project directory with a manifest.  With lint
\* and format both chosen, .eslintrc.json is the configuration the lint branch
\* writes, whatever file of that name was there, with the prettier plugin
\* appended to its extension list: the plugin is in the list once, as its last
\* element, and the manifest declares eslint-config-prettier and
\* eslint-plugin-prettier.  With one choice or none, .eslintrc.json is the
\* configuration as the lint branch writes it (lint chosen) or what it was
\* (lint not chosen), and the manifest declares neither package unless the
\* template's did.
C25_AugmentAfterLintConfig ==
    probe.op = "customize" /\ probe.applied >= 1 /\ ~probe.once.threw
       /\ HasManifest(probe.dir) =>
        LET d == probe.once.dir
            ext == ExtendsOf(d).fields
            last == Digits[Cardinality(DOMAIN ext)]
        IN  IF probe.useEslint /\ probe.usePrettier
            THEN /\ FileExists(d, ".eslintrc.json")
                 /\ d.files[".eslintrc.json"] =
                       JsonFile(SetProp(eslintConfig, "extends",
                                        Push(Prop(eslintConfig, "extends"), PrettierPlugin)))
                 /\ Cardinality({k \in DOMAIN ext : ext[k] = PrettierPlugin}) = 1
                 /\ ext[last] = PrettierPlugin
                 /\ CrossPackages \subseteq DOMAIN Entries(d, "devDependencies")
            ELSE /\ IF probe.useEslint
                    THEN /\ FileExists(d, ".eslintrc.json")
                         /\ d.files[".eslintrc.json"] = JsonFile(eslintConfig)
                    ELSE /\ FileExists(d, ".eslintrc.json")
                               <=> FileExists(probe.dir, ".eslintrc.json")
                         /\ FileExists(d, ".eslintrc.json") =>
                               d.files[".eslintrc.json"] = probe.dir.files[".eslintrc.json"]
                 /\ \A k \in CrossPackages :
                       k \in DOMAIN Entries(d, "devDependencies")
                          <=> k \in DOMAIN Entries(probe.dir, "devDependencies")

\* lint and format were both chosen over a directory that had its own
\* .eslintrc.json: the file written has the three extensions, the plugin last
C25_Witness ==
    /\ probe.op = "customize" /\ probe.applied >= 1 /\ ~probe.once.threw
    /\ probe.useEslint /\ probe.usePrettier
    /\ HasManifest(probe.dir)
    /\ FileExists(probe.dir, ".eslintrc.json")
    /\ probe.dir.files[".eslintrc.json"].kind = "json"
    /\ FileExists(probe.once.dir, ".eslintrc.json")
    /\ ExtendsOf(probe.once.dir) =
          JArr(<<JStr("eslint:recommended"), JStr("plugin:@typescript-eslint/recommended"),
                 PrettierPlugin>>)

(***************************************************************************)
(* The sessions of the generated HTTP server.                              *)
(***************************************************************************)
\* C26, as claimed: a request with a session id that a transport handles is
\* handled by the transport registered for that id, which is not closed; a
\* request with an id that is not registered, and a GET or DELETE without an
\* id, is answered with 400, creates no transport and leaves the session map
\* as it is; a POST without an id creates a transport that is none of the
\* registered ones.
C26_SessionRouting ==
    [][probe.op = "http" /\ probe'.last.event \in {"POST", "GET", "DELETE"} =>
          LET r == probe'.last
              registered == r.header \in DOMAIN probe.transports
          IN  /\ r.header # "" /\ r.by # 0 =>
                    /\ registered
                    /\ probe.transports[r.header] = r.by
                    /\ probe.created[r.by].sessionId = r.header
                    /\ ~probe.created[r.by].closed
              /\ (r.header # "" /\ ~registered) \/ (r.header = "" /\ r.event # "POST") =>
                    /\ r.status = "400"
                    /\ probe'.created = probe.created
                    /\ probe'.transports = probe.transports
              /\ r.header = "" /\ r.event = "POST" =>
                    /\ Len(probe'.created) = Len(probe.created) + 1
                    /\ r.by = Len(probe'.created)
                    /\ \A k \in DOMAIN probe.transports : probe.transports[k] # r.by]_vars

FetchStarts == pc \in {"gh_clone", "custom_check", "builtin_check"}

\* C27: the project directory goes from present to absent in one step only,
\* the one the confirmed overwrite takes from the start of the run to the
\* identity prompts, ahead of every fetch; a step that ends the run as
\* cancelled ends it with exit status 0, the project directory as it was,
\* no temporary directory and no template result; and whenever a fetch starts
\* the project directory does not exist.
C27_OverwriteOnlyOnConfirm ==
    [][/\ dest.exists /\ ~dest'.exists => pc = "start" /\ pc' = "prompt"
       /\ pc' = "exit" /\ exit'.why = "cancelled" =>
             /\ pc = "start" /\ dest.exists
             /\ exit'.code = 0
             /\ dest' = dest /\ tempDir' = NoDir /\ templateResult' = NoResult
       /\ FetchStarts => ~dest.exists]_vars

\* the overwrite was declined: the run has ended with status 0 and the old
\* project directory is as it was
C27_Witness ==
    /\ pc = "exit" /\ exit = [code |-> 0, why |-> "cancelled"]
    /\ dest = OldProject(ProjectDir)
    /\ tempDir = NoDir /\ templateResult = NoResult

Remote == Classify(args.template) = "RemoteRepository"

\* the repository holds a control file that parses
ValidControl == FileExists(env.tpl, ControlFile) /\ ~ParseThrows(env.tpl.files[ControlFile])

AfterSnapshotDeletion == pc \in {"gh_prompts", "gh_metadata", "gh_return"}

\* C28: for a remote template the snapshot is deleted in one step only, the
\* cleanup, which the control-file step precedes; the control-file step runs
\* with the snapshot present and takes the document from it; from the deletion
\* to the handler's return the snapshot stays absent and the document read
\* stays as it was; and once the handler has returned, a control file of the
\* repository that parses is the result's configInstructions, and the result's
\* transportType is the document's where it gives one and goes by the
\* repository's name where it does not.
C28_ControlReadBeforeDeletion ==
    [][/\ tempDir.exists /\ ~tempDir'.exists => pc = "gh_cleanup" /\ pc' = "gh_prompts"
       /\ pc = "gh_config" /\ pc' = "gh_cleanup" =>
             /\ tempDir.exists /\ tempDir' = tempDir
             /\ configInstructions' =
                   IF ValidControl THEN env.tpl.files[ControlFile].json ELSE JNull
       /\ AfterSnapshotDeletion =>
             /\ ~tempDir.exists /\ ~tempDir'.exists
             /\ configInstructions' = configInstructions
       /\ Remote /\ HandlerReturned /\ ValidControl =>
             /\ ~tempDir.exists
             /\ templateResult.configInstructions = env.tpl.files[ControlFile].json
             /\ templateResult.transportType =
                   IF Truthy(Prop(env.tpl.files[ControlFile].json, "transportType"))
                   THEN Prop(env.tpl.files[ControlFile].json, "transportType")
                   ELSE IF Includes(Last(Split(args.template, "/")), "http")
                        THEN JStr("http") ELSE JStr("stdio")]_vars

\* a repository whose name says nothing of http, with a control file that
\* gives http: the run has succeeded, the snapshot is gone and the result
\* carries the document and its transport kind
C28_Witness ==
    /\ Remote /\ pc = "exit" /\ exit.why = "success"
    /\ ~tempDir.exists
    /\ FileExists(env.tpl, ControlFile)
    /\ env.tpl.files[ControlFile] = JsonFile(ControlHttp)
    /\ templateResult.configInstructions = ControlHttp
    /\ templateResult.transportType = JStr("http")
    /\ ~Includes(templateResult.templateName, "http")

\* the probe's directory as customizeTemplate has it when the two prompts are
\* answered: the metadata written
BeforeChoices ==
    updateProjectMetadata(probe.dir, "my-cool-server",
                          [description |-> "X", authorName |-> "A"]).dir

\* the files of a directory other than the named ones
FilesBut(dir, names) == [p \in (DOMAIN dir.files) \ names |-> dir.files[p]]

\* C29: where customizeTemplate returns, what it wrote after the prompts is
\* what the choices call for.  With format on and lint off: the manifest's
\* devDependencies are those it had and prettier, its scripts those it had with
\* format set to the prettier command, its other keys as they were; .prettierrc
\* holds the formatter configuration; every other file, .eslintrc.json
\* included, is there or not and holds what it held.  With both off the
\* directory, the manifest with it, is as it was.  Without a manifest the
\* directory is as it was for every pair of choices.
C29_OnlyWhatChoicesCallFor ==
    probe.op = "customize" /\ probe.applied >= 1 /\ ~probe.once.threw =>
        /\ probe.usePrettier /\ ~probe.useEslint /\ HasManifest(BeforeChoices) =>
              /\ HasManifest(probe.once.dir)
              /\ Entries(probe.once.dir, "devDependencies") =
                    Merge(Entries(BeforeChoices, "devDependencies"),
                          [k \in {"prettier"} |-> JStr("^3.2.5")])
              /\ Entries(probe.once.dir, "scripts") =
                    Merge(Entries(BeforeChoices, "scripts"),
                          [k \in {"format"} |-> JStr("prettier --write 'src/**/*.ts'")])
              /\ \A k \in (DOMAIN BeforeChoices.files["package.json"].json.fields)
                             \ {"devDependencies", "scripts"} :
                    Prop(probe.once.dir.files["package.json"].json, k) =
                       Prop(BeforeChoices.files["package.json"].json, k)
              /\ FileExists(probe.once.dir, ".prettierrc")
              /\ probe.once.dir.files[".prettierrc"] = JsonFile(prettierConfig)
              /\ FilesBut(probe.once.dir, {"package.json", ".prettierrc"}) =
                    FilesBut(BeforeChoices, {"package.json", ".prettierrc"})
        /\ ~probe.usePrettier /\ ~probe.useEslint => probe.once.dir = BeforeChoices
        /\ ~FileExists(BeforeChoices, "package.json") => probe.once.dir = BeforeChoices

\* format on, lint off, over a manifest with its own lint script and a lint
\* configuration of the project's own: the formatter's three additions are
\* there, the lint configuration and the lint script are as they were
C29_Witness ==
    /\ probe.op = "customize" /\ probe.applied >= 1 /\ ~probe.once.threw
    /\ probe.usePrettier /\ ~probe.useEslint
    /\ FileExists(probe.dir, "package.json")
    /\ probe.dir.files["package.json"] = JsonFile(ManifestOwnScripts)
    /\ FileExists(probe.dir, ".eslintrc.json")
    /\ FileExists(probe.once.dir, ".eslintrc.json")
    /\ probe.once.dir.files[".eslintrc.json"] = probe.dir.files[".eslintrc.json"]
    /\ FileExists(probe.once.dir, ".prettierrc")
    /\ DOMAIN Entries(probe.once.dir, "devDependencies") = {"prettier"}
    /\ Entries(probe.once.dir, "scripts")["lint"] = JStr("biome lint")

====
